---- MODULE Spec2Model ----
(***************************************************************************)
(* Ingestion pipeline of the pattern engine: CSVLoader (csv_loader.py) and *)
(* BPI2019Adapter (bpi2019_adapter.py).                                    *)
(*                                                                         *)
(* Strings are sequences of tokens.  A token is a word [w |-> "..."] (a    *)
(* chunk of text with no leading or trailing blank), the blank SP, or a    *)
(* run of digits [z |-> k, n |-> v]: k leading zeros followed by the       *)
(* decimal digits of v ("0001" is N(3, 1)).  Python values are tagged      *)
(* records: None, str, int.  A dict is a function from key names to Python *)
(* values.  An Optional date is the empty sequence or <<day>>.             *)
(***************************************************************************)
EXTENDS Integers, Sequences, FiniteSets, TLC

VARIABLES
    vbakFile,   \* the VBAK file: [exists, ioerr, headers, rows]
    vbapFile,   \* the VBAP file
    vbfaFile,   \* the VBFA file (not existing: none given, or none found)
    textFile,   \* the text file (not existing: none given, or none found)
    hashSalt,   \* the running process's string-hash key (PYTHONHASHSEED)
    runs,       \* the load_from_csv calls made so far, oldest first
    target,     \* the file handed to _validate_csv on its own
    report,     \* the last CSVValidationResult, or NoReport
    loaded,     \* what _load_csv gave on target, or NoRecords
    bpiRows,    \* the rows of the BPI activity-log file
    adapter,    \* the BPI2019Adapter: [events, cases, documents, vendors]
    wf,         \* the last to_workflow_format output, or NoOutput
    pv,         \* the last get_process_variants call and its output, or NoOutput
    rawFile,    \* a file as bytes: the lines, as token sequences with delimiters
    cfg,        \* the CSVLoader's configuration: [delimiter, encoding]
    rawOut,     \* what _validate_csv and _load_csv gave on rawFile
    log,        \* the calls made on the adapters in a session, oldest first
    parquet,    \* the rows of the I_SalesDocument parquet file
    saltAdapter \* the SALTAdapter: [sales_documents, load_result]

vars == <<vbakFile, vbapFile, vbfaFile, textFile, hashSalt, runs, target, report, loaded,
         bpiRows, adapter, wf,
         pv, rawFile, cfg, rawOut, log, parquet,
         saltAdapter>>

csvVars == <<vbakFile, vbapFile, vbfaFile, textFile, hashSalt, runs>>
valVars == <<target, report, loaded>>
bpiVars == <<bpiRows, adapter, wf, pv>>
rawVars == <<rawFile, cfg, rawOut>>
sessVars == <<log, parquet, saltAdapter>>

(***************************************************************************)
(* Strings                                                                 *)
(***************************************************************************)
W(s) == [w |-> s]
N(k, v) == [z |-> k, n |-> v]
SP == W(" ")

IsDigits(tok) == "n" \in DOMAIN tok

RECURSIVE LStrip(_)
LStrip(s) == IF s # <<>> /\ Head(s) = SP THEN LStrip(Tail(s)) ELSE s

RECURSIVE RStrip(_)
RStrip(s) ==
    IF s # <<>> /\ s[Len(s)] = SP THEN RStrip(SubSeq(s, 1, Len(s) - 1)) ELSE s

\* str.strip()
Strip(s) == RStrip(LStrip(s))

\* str.upper() on the words the category and null-token checks meet
UpperWord(x) ==
    CASE x = "c" -> "C"
      [] x = "j" -> "J"
      [] x = "m" -> "M"
      [] x = "null" -> "NULL"
      [] x = "na" -> "NA"
      [] x = "n/a" -> "N/A"
      [] x = "#n/a" -> "#N/A"
      [] x = "or" -> "OR"
      [] x = "emea" -> "EMEA"
      [] OTHER -> x

Upper(s) == [i \in 1..Len(s) |-> IF IsDigits(s[i]) THEN s[i] ELSE W(UpperWord(s[i].w))]

(***************************************************************************)
(* Python values                                                           *)
(***************************************************************************)
PyNone == [t |-> "None"]
PyStr(s) == [t |-> "str", s |-> s]
PyInt(i) == [t |-> "int", i |-> i]

IsNone(v) == v.t = "None"

\* str(v)
Str(v) ==
    CASE v.t = "None" -> <<W("None")>>
      [] v.t = "str" -> v.s
      [] v.t = "int" -> <<N(0, v.i)>>

\* bool(v): None, '' and 0 are falsy
Truthy(v) ==
    CASE v.t = "None" -> FALSE
      [] v.t = "str" -> v.s # <<>>
      [] v.t = "int" -> v.i # 0

\* dict.get(key, default)
Get(d, key, default) == IF key \in DOMAIN d THEN d[key] ELSE default

\* str + str: adjacent digit runs merge into one run
RECURSIVE Pow10(_)
Pow10(k) == IF k = 0 THEN 1 ELSE 10 * Pow10(k - 1)

RECURSIVE NumDigits(_)
NumDigits(v) == IF v < 10 THEN 1 ELSE 1 + NumDigits(v \div 10)

MergeDigits(a, b) ==
    IF a.n = 0 THEN N(a.z + 1 + b.z, b.n)
    ELSE N(a.z, a.n * Pow10(b.z + NumDigits(b.n)) + b.n)

Concat(s, u) ==
    IF s # <<>> /\ u # <<>> /\ IsDigits(s[Len(s)]) /\ IsDigits(Head(u))
    THEN SubSeq(s, 1, Len(s) - 1) \o <<MergeDigits(s[Len(s)], Head(u))>> \o Tail(u)
    ELSE s \o u

(***************************************************************************)
(* Field maps                                                              *)
(***************************************************************************)
\* header spelling -> canonical field name
VBAK_FIELD_MAP ==
    "vbeln" :> "vbeln" @@ "VBELN" :> "vbeln" @@
    "sales_document" :> "vbeln" @@ "Sales Document" :> "vbeln" @@
    "order_number" :> "vbeln" @@ "Order Number" :> "vbeln" @@
    "auart" :> "auart" @@ "AUART" :> "auart" @@ "order_type" :> "auart" @@
    "Order Type" :> "auart" @@ "Sales Document Type" :> "auart" @@
    "vkorg" :> "vkorg" @@ "VKORG" :> "vkorg" @@ "sales_org" :> "vkorg" @@
    "Sales Org" :> "vkorg" @@ "Sales Organization" :> "vkorg" @@
    "vtweg" :> "vtweg" @@ "VTWEG" :> "vtweg" @@
    "Distribution Channel" :> "vtweg" @@ "spart" :> "spart" @@
    "SPART" :> "spart" @@ "Division" :> "spart" @@ "erdat" :> "erdat" @@
    "ERDAT" :> "erdat" @@ "created_date" :> "erdat" @@
    "Created Date" :> "erdat" @@ "Creation Date" :> "erdat" @@
    "netwr" :> "netwr" @@ "NETWR" :> "netwr" @@ "net_value" :> "netwr" @@
    "Net Value" :> "netwr" @@ "waerk" :> "waerk" @@ "WAERK" :> "waerk" @@
    "currency" :> "waerk" @@ "Currency" :> "waerk" @@ "kunnr" :> "kunnr" @@
    "KUNNR" :> "kunnr" @@ "customer" :> "kunnr" @@ "Customer" :> "kunnr" @@
    "Sold-to party" :> "kunnr" @@ "Sold-To Party" :> "kunnr" @@
    "vdatu" :> "vdatu" @@ "VDATU" :> "vdatu" @@
    "req_delivery_date" :> "vdatu" @@ "Requested Delivery Date" :> "vdatu" @@
    "erzet" :> "erzet" @@ "ERZET" :> "erzet" @@ "Created Time" :> "erzet" @@
    "ernam" :> "ernam" @@ "ERNAM" :> "ernam" @@ "Created By" :> "ernam" @@
    "knumv" :> "knumv" @@ "KNUMV" :> "knumv"

VBAP_FIELD_MAP ==
    "vbeln" :> "vbeln" @@ "VBELN" :> "vbeln" @@
    "sales_document" :> "vbeln" @@ "Sales Document" :> "vbeln" @@
    "posnr" :> "posnr" @@ "POSNR" :> "posnr" @@ "item" :> "posnr" @@
    "Item" :> "posnr" @@ "item_number" :> "posnr" @@
    "Item Number" :> "posnr" @@ "Sales Document Item" :> "posnr" @@
    "matnr" :> "matnr" @@ "MATNR" :> "matnr" @@ "material" :> "matnr" @@
    "Material" :> "matnr" @@ "Material Number" :> "matnr" @@
    "werks" :> "werks" @@ "WERKS" :> "werks" @@ "plant" :> "werks" @@
    "Plant" :> "werks" @@ "kwmeng" :> "kwmeng" @@ "KWMENG" :> "kwmeng" @@
    "quantity" :> "kwmeng" @@ "Quantity" :> "kwmeng" @@
    "Order Quantity" :> "kwmeng" @@ "netwr" :> "netwr" @@
    "NETWR" :> "netwr" @@ "net_value" :> "netwr" @@ "Net Value" :> "netwr" @@
    "Net Amount" :> "netwr" @@ "pstyv" :> "pstyv" @@ "PSTYV" :> "pstyv" @@
    "Item Category" :> "pstyv" @@ "vrkme" :> "vrkme" @@ "VRKME" :> "vrkme" @@
    "Sales Unit" :> "vrkme" @@ "meins" :> "meins" @@ "MEINS" :> "meins" @@
    "Unit" :> "meins"

TEXT_FIELD_MAP ==
    "tdname" :> "tdname" @@ "TDNAME" :> "tdname" @@
    "object_key" :> "tdname" @@ "Object Key" :> "tdname" @@
    "tdid" :> "tdid" @@ "TDID" :> "tdid" @@ "text_id" :> "tdid" @@
    "Text ID" :> "tdid" @@ "tdspras" :> "tdspras" @@
    "TDSPRAS" :> "tdspras" @@ "spras" :> "tdspras" @@ "SPRAS" :> "tdspras" @@
    "language" :> "tdspras" @@ "Language" :> "tdspras" @@
    "tdline" :> "tdline" @@ "TDLINE" :> "tdline" @@ "text" :> "tdline" @@
    "Text" :> "tdline" @@ "text_line" :> "tdline" @@
    "Text Line" :> "tdline" @@ "content" :> "tdline" @@
    "Content" :> "tdline" @@ "tdobject" :> "tdobject" @@
    "TDOBJECT" :> "tdobject" @@ "text_object" :> "tdobject" @@
    "Text Object" :> "tdobject"

VBFA_FIELD_MAP ==
    "vbelv" :> "vbelv" @@ "VBELV" :> "vbelv" @@ "preceding_doc" :> "vbelv" @@
    "Preceding Doc" :> "vbelv" @@ "Source Document" :> "vbelv" @@
    "posnv" :> "posnv" @@ "POSNV" :> "posnv" @@
    "preceding_item" :> "posnv" @@ "Source Item" :> "posnv" @@
    "vbtyp_v" :> "vbtyp_v" @@ "VBTYP_V" :> "vbtyp_v" @@
    "source_category" :> "vbtyp_v" @@ "Source Category" :> "vbtyp_v" @@
    "vbeln" :> "vbeln" @@ "VBELN" :> "vbeln" @@
    "subsequent_doc" :> "vbeln" @@ "Subsequent Doc" :> "vbeln" @@
    "Target Document" :> "vbeln" @@ "posnn" :> "posnn" @@
    "POSNN" :> "posnn" @@ "subsequent_item" :> "posnn" @@
    "Target Item" :> "posnn" @@ "vbtyp_n" :> "vbtyp_n" @@
    "VBTYP_N" :> "vbtyp_n" @@ "target_category" :> "vbtyp_n" @@
    "Target Category" :> "vbtyp_n" @@ "rfmng" :> "rfmng" @@
    "RFMNG" :> "rfmng" @@ "quantity" :> "rfmng" @@
    "Reference Quantity" :> "rfmng" @@ "erdat" :> "erdat" @@
    "ERDAT" :> "erdat" @@ "created_date" :> "erdat" @@
    "Created Date" :> "erdat"


\* str.lower().replace(' ', '_') on the header words that are in no field map
LowerUnderscore(x) ==
    CASE x = "UnknownCol" -> "unknowncol"
      [] x = "Custom Field" -> "custom_field"
      [] x = "Notes" -> "notes"
      [] x = "Order" -> "order"
      [] x = "VBELN" -> "vbeln"
      [] x = "NETWR" -> "netwr"
      [] x = " " -> "_"
      [] OTHER -> x

\* the same on a header of several tokens (a digit run reads "0")
RECURSIVE LowerName(_)
LowerName(hc) ==
    IF hc = <<>> THEN ""
    ELSE (IF IsDigits(Head(hc)) THEN "0" ELSE LowerUnderscore(Head(hc).w))
         \o LowerName(Tail(hc))

\* the key a header is looked up under: header.strip(), a single word
HeaderClean(h) == Strip(h)

InFieldMap(hc, field_map) ==
    Len(hc) = 1 /\ ~IsDigits(hc[1]) /\ hc[1].w \in DOMAIN field_map

\* field_map.get(header.strip()): the canonical name, or "" for None
MapGet(h, field_map) ==
    IF InFieldMap(HeaderClean(h), field_map) THEN field_map[HeaderClean(h)[1].w] ELSE ""

(***************************************************************************)
(* CSVLoader: validation and loading of one file                           *)
(*                                                                         *)
(* A file is [exists, ioerr, headers, rows]: the header cells and the data *)
(* rows as csv.DictReader yields them; ioerr says that reading the file    *)
(* raises an error other than a decode error.  A row has one cell per      *)
(* header (a short row's missing cells read as None, which every consumer  *)
(* below treats as the empty cell).                                        *)
(***************************************************************************)
NoFile == [exists |-> FALSE, ioerr |-> FALSE, headers |-> <<>>, rows |-> <<>>]

ErrNoHeaders == [kind |-> "No headers found in CSV"]
ErrRequired(required_key, field_map) ==
    [kind |-> "Required field not found", field |-> required_key,
     expected |-> {k \in DOMAIN field_map : field_map[k] = required_key}]
ErrReading == [kind |-> "Error reading CSV"]
WarnUnmapped(cols) == [kind |-> "Unmapped columns", columns |-> cols]

\* the cleaned headers, in file order, that are not keys of field_map
UnmappedColumns(headers, field_map) ==
    LET clean == [i \in 1..Len(headers) |-> HeaderClean(headers[i])]
    IN  SelectSeq(clean, LAMBDA hc : ~InFieldMap(hc, field_map))

MappedColumns(headers, field_map) ==
    LET keys == {HeaderClean(headers[i]) : i \in 1..Len(headers)}
    IN  [hc \in {k \in keys : InFieldMap(k, field_map)} |-> field_map[hc[1].w]]

\* HasKey without header.strip()
HasKeyUntrimmed(headers, field_map, required_key) ==
    \E i \in 1..Len(headers) :
        InFieldMap(headers[i], field_map) /\ field_map[headers[i][1].w] = required_key

HasKey(headers, field_map, required_key) ==
    \E i \in 1..Len(headers) : MapGet(headers[i], field_map) = required_key

ValidateCsv(f, field_map, required_key) ==
    LET empty == [valid |-> TRUE, row_count |-> 0, column_count |-> 0,
                  detected_columns |-> <<>>, mapped_columns |-> <<>>,
                  unmapped_columns |-> <<>>, errors |-> <<>>, warnings |-> <<>>]
        unmapped == UnmappedColumns(f.headers, field_map)
        has_key == HasKey(f.headers, field_map, required_key)
    IN  IF f.ioerr
        THEN [empty EXCEPT !.valid = FALSE, !.errors = <<ErrReading>>]
        ELSE IF f.headers = <<>>
        THEN [empty EXCEPT !.valid = FALSE, !.errors = <<ErrNoHeaders>>]
        ELSE [valid |-> has_key,
              row_count |-> Len(f.rows),
              column_count |-> Len(f.headers),
              detected_columns |-> f.headers,
              mapped_columns |-> MappedColumns(f.headers, field_map),
              unmapped_columns |-> unmapped,
              errors |-> IF has_key THEN <<>>
                         ELSE <<ErrRequired(required_key, field_map)>>,
              warnings |-> IF unmapped # <<>> THEN <<WarnUnmapped(unmapped)>>
                           ELSE <<>>]

STRING_FIELDS ==
    {"vbeln", "posnr", "matnr", "kunnr", "tdname", "tdid", "tdspras",
     "vbelv", "posnv", "posnn", "werks", "auart", "vkorg", "vtweg",
     "spart", "waerk", "pstyv", "vrkme", "ernam", "knumv", "tdobject",
     "vbtyp_v", "vbtyp_n"}

NullTokens == {<<W("NULL")>>, <<W("NA")>>, <<W("N/A")>>, <<W("#N/A")>>}

\* _clean_value on a csv cell: None for empty and null tokens, int for a run
\* of digits with an optional minus sign, otherwise the stripped string
\* (float(value) raises ValueError on every other string of the vocabulary)
CleanValue(cell) ==
    LET value == Strip(cell)
    IN  IF value = <<>> \/ Upper(value) \in NullTokens THEN PyNone
        ELSE IF Len(value) = 1 /\ IsDigits(value[1]) THEN PyInt(value[1].n)
        ELSE IF Len(value) = 2 /\ value[1] = W("-") /\ IsDigits(value[2])
        THEN PyInt(0 - value[2].n)
        ELSE PyStr(value)

NormalizedName(h, field_map) ==
    LET hc == HeaderClean(h)
    IN  IF InFieldMap(hc, field_map) THEN field_map[hc[1].w]
        ELSE LowerName(hc)

\* NormalizedValue without the STRING_FIELDS branch
NormalizedValueCoerced(name, cell) == CleanValue(cell)

NormalizedValue(name, cell) ==
    IF name \in STRING_FIELDS
    THEN PyStr(IF cell # <<>> THEN Strip(cell) ELSE <<>>)
    ELSE CleanValue(cell)

\* one data row as a dict; a later column overwrites an earlier one that
\* normalizes to the same name
NormalizedRow(headers, row, field_map) ==
    LET name(i) == NormalizedName(headers[i], field_map)
        names == {name(i) : i \in 1..Len(headers)}
        last(nm) == CHOOSE i \in 1..Len(headers) :
                        /\ name(i) = nm
                        /\ \A j \in 1..Len(headers) : name(j) = nm => j <= i
    IN  [nm \in names |-> NormalizedValue(nm, row[last(nm)])]

LoadCsv(f, field_map) ==
    [i \in 1..Len(f.rows) |-> NormalizedRow(f.headers, f.rows[i], field_map)]

(***************************************************************************)
(* Reading a file: encodings and delimiter.                                *)
(*                                                                         *)
(* A raw file is its lines as the bytes on disk: ASCII tokens (the         *)
(* delimiter characters are the words ",", ";", tab and "|") and the byte  *)
(* 0xE9, which is e-acute in latin-1 and cp1252 and no valid UTF-8.  The file  *)
(* is decoded one read buffer at a time, a buffer holding ChunkLines       *)
(* lines; f.read(4096) decodes the first buffer, which is the sample.      *)
(* Cells are not quoted.                                                   *)
(***************************************************************************)
ChunkLines == 2

HighByte == [b |-> 233]

\* the encodings tried, in order
Encodings(encoding) == <<encoding, "utf-8-sig", "latin-1", "cp1252">>

DecodeToken(tok) == IF tok = HighByte THEN W("e-acute") ELSE tok

DecodeLine(line) == [i \in 1..Len(line) |-> DecodeToken(line[i])]

\* the line decodes: always in the single-byte encodings, and in the UTF-8
\* ones when it holds no 0xE9
Decodes(line, encoding) ==
    encoding \in {"latin-1", "cp1252"} \/ \A i \in 1..Len(line) : line[i] # HighByte

\* the number of lines read before UnicodeDecodeError is raised: the lines
\* of the buffers before the first buffer that does not decode; all lines
\* when every buffer decodes
GoodLines(lines, encoding) ==
    IF \A k \in 1..Len(lines) : Decodes(lines[k], encoding) THEN Len(lines)
    ELSE LET bad == CHOOSE k \in 1..Len(lines) :
                        /\ ~Decodes(lines[k], encoding)
                        /\ \A j \in 1..(k - 1) : Decodes(lines[j], encoding)
         IN  ((bad - 1) \div ChunkLines) * ChunkLines

\* sample.count(ch)
RECURSIVE Count(_, _)
Count(sample, ch) ==
    IF sample = <<>> THEN 0
    ELSE (IF Head(sample) = W(ch) THEN 1 ELSE 0) + Count(Tail(sample), ch)

Delimiters == <<",", ";", "\t", "|">>

\* max(delimiters, key=delimiters.get): the first key with the largest
\* count, in insertion order
RECURSIVE MaxKey(_, _, _, _)
MaxKey(sample, keys, i, best) ==
    IF i > Len(keys) THEN best
    ELSE MaxKey(sample, keys, i + 1,
                IF Count(sample, keys[i]) > Count(sample, best) THEN keys[i] ELSE best)

\* max with the last largest key winning
RECURSIVE MaxKeyLast(_, _, _, _)
MaxKeyLast(sample, keys, i, best) ==
    IF i > Len(keys) THEN best
    ELSE MaxKeyLast(sample, keys, i + 1,
                    IF Count(sample, keys[i]) >= Count(sample, best) THEN keys[i] ELSE best)

DetectDelimiterLastWins(sample) == MaxKeyLast(sample, Delimiters, 2, Delimiters[1])

DetectDelimiter(sample) == MaxKey(sample, Delimiters, 2, Delimiters[1])

\* the text of the first read buffer
RECURSIVE Flatten(_)
Flatten(lines) == IF lines = <<>> THEN <<>> ELSE Head(lines) \o Flatten(Tail(lines))

Sample(lines) ==
    Flatten(SubSeq(lines, 1, IF Len(lines) < ChunkLines THEN Len(lines) ELSE ChunkLines))

\* the cells of one line
RECURSIVE SplitFrom(_, _, _)
SplitFrom(toks, delimiter, cell) ==
    IF toks = <<>> THEN <<cell>>
    ELSE IF Head(toks) = W(delimiter)
    THEN <<cell>> \o SplitFrom(Tail(toks), delimiter, <<>>)
    ELSE SplitFrom(Tail(toks), delimiter, Append(cell, Head(toks)))

\* a DictReader row: missing cells read as empty, cells beyond the header
\* are kept under the key None, which no consumer reads
FitRow(cells, n) == [i \in 1..n |-> IF i <= Len(cells) THEN cells[i] ELSE <<>>]

\* csv.DictReader(f, delimiter=delimiter) over the decoded lines
DictReader(lines, delimiter) ==
    IF lines = <<>> THEN [NoFile EXCEPT !.exists = TRUE]
    ELSE [exists |-> TRUE, ioerr |-> FALSE,
          headers |-> SplitFrom(lines[1], delimiter, <<>>),
          rows |-> [k \in 1..(Len(lines) - 1) |->
                       FitRow(SplitFrom(lines[k + 1], delimiter, <<>>),
                              Len(SplitFrom(lines[1], delimiter, <<>>)))]]

\* the lines one attempt gets to read, decoded
Readable(lines, encoding) ==
    [k \in 1..GoodLines(lines, encoding) |-> DecodeLine(lines[k])]

\* the reader of one attempt: the delimiter is the detected one; the
\* delimiter the loader was constructed with is not read
AttemptReader(lines, encoding) ==
    DictReader(Readable(lines, encoding), DetectDelimiter(Sample(Readable(lines, encoding))))

\* _load_csv: records is created once, before the loop over the encodings,
\* and every attempt appends to it the rows it reads before it fails
RECURSIVE LoadAttempts(_, _, _, _)
LoadAttempts(lines, encodings, records, field_map) ==
    IF encodings = <<>> THEN records
    ELSE IF GoodLines(lines, Head(encodings)) = Len(lines)
    THEN records \o LoadCsv(AttemptReader(lines, Head(encodings)), field_map)
    ELSE LoadAttempts(lines, Tail(encodings),
                      records \o LoadCsv(AttemptReader(lines, Head(encodings)), field_map),
                      field_map)

LoadRawCsv(lines, loader, field_map) ==
    LoadAttempts(lines, Encodings(loader.encoding), <<>>, field_map)

ErrDecode == [kind |-> "Could not decode file with any supported encoding"]

EmptyReport ==
    [valid |-> TRUE, row_count |-> 0, column_count |-> 0,
     detected_columns |-> <<>>, mapped_columns |-> <<>>,
     unmapped_columns |-> <<>>, errors |-> <<>>, warnings |-> <<>>]

\* the part of one attempt that comes before the rows are counted
HeaderPass(result, headers, field_map, required_key) ==
    [result EXCEPT
        !.detected_columns = headers,
        !.column_count = Len(headers),
        !.mapped_columns = MappedColumns(headers, field_map) @@ @,
        !.unmapped_columns = @ \o UnmappedColumns(headers, field_map),
        !.errors = IF HasKey(headers, field_map, required_key) THEN @
                   ELSE Append(@, ErrRequired(required_key, field_map)),
        !.valid = @ /\ HasKey(headers, field_map, required_key)]

\* the end of an attempt that read the whole file
RowPass(result, rows) ==
    [result EXCEPT
        !.row_count = Len(rows),
        !.warnings = IF result.unmapped_columns # <<>>
                     THEN Append(@, WarnUnmapped(result.unmapped_columns)) ELSE @]

\* _validate_csv: result is created once and every attempt writes to it
RECURSIVE ValidateAttempts(_, _, _, _, _)
ValidateAttempts(lines, encodings, result, field_map, required_key) ==
    IF encodings = <<>>
    THEN [result EXCEPT !.valid = FALSE, !.errors = Append(@, ErrDecode)]
    ELSE IF GoodLines(lines, Head(encodings)) = 0 /\ lines # <<>>
    THEN ValidateAttempts(lines, Tail(encodings), result, field_map, required_key)
    ELSE IF AttemptReader(lines, Head(encodings)).headers = <<>>
    THEN [result EXCEPT !.valid = FALSE, !.errors = Append(@, ErrNoHeaders)]
    ELSE IF GoodLines(lines, Head(encodings)) = Len(lines)
    THEN RowPass(HeaderPass(result, AttemptReader(lines, Head(encodings)).headers,
                            field_map, required_key),
                 AttemptReader(lines, Head(encodings)).rows)
    ELSE ValidateAttempts(lines, Tail(encodings),
                          HeaderPass(result, AttemptReader(lines, Head(encodings)).headers,
                                     field_map, required_key),
                          field_map, required_key)

ValidateRawCsv(lines, loader, field_map, required_key) ==
    ValidateAttempts(lines, Encodings(loader.encoding), EmptyReport, field_map, required_key)

\* the delimiter the last attempt parsed with
UsedDelimiter(lines) == DetectDelimiter(Sample([k \in 1..Len(lines) |-> DecodeLine(lines[k])]))

(***************************************************************************)
(* Dates: a datetime is its proleptic ordinal (days since 0001-01-01);     *)
(* an Optional[datetime] is <<>> or <<ordinal>>.                           *)
(***************************************************************************)
IsLeap(y) == y % 4 = 0 /\ (y % 100 # 0 \/ y % 400 = 0)

DaysInMonth(y, m) ==
    CASE m \in {1, 3, 5, 7, 8, 10, 12} -> 31
      [] m \in {4, 6, 9, 11} -> 30
      [] OTHER -> IF IsLeap(y) THEN 29 ELSE 28

RECURSIVE DaysBeforeMonth(_, _)
DaysBeforeMonth(y, m) ==
    IF m = 1 THEN 0 ELSE DaysBeforeMonth(y, m - 1) + DaysInMonth(y, m - 1)

Ordinal(y, m, d) ==
    LET p == y - 1
    IN  365 * p + (p \div 4) - (p \div 100) + (p \div 400) + DaysBeforeMonth(y, m) + d

Width(tok) == tok.z + NumDigits(tok.n)

\* strptime of the fields %Y (four digits), %m and %d (one or two digits)
ValidYMD(y, m, d) ==
    /\ IsDigits(y) /\ Width(y) = 4 /\ y.n >= 1
    /\ IsDigits(m) /\ Width(m) <= 2 /\ m.n \in 1..12
    /\ IsDigits(d) /\ Width(d) <= 2 /\ d.n >= 1 /\ d.n <= DaysInMonth(y.n, m.n)

Sep(s, i, x) == ~IsDigits(s[i]) /\ s[i].w = x

\* datetime.strptime(date_str[:10], fmt) for the formats of _parse_date, in
\* the order they are tried; the cut to ten characters changes no string of
\* at most ten characters, and '%Y-%m-%dT%H:%M:%S' matches no string that short
ParseFormats(s) ==
    IF Len(s) = 5 /\ Sep(s, 2, "-") /\ Sep(s, 4, "-") /\ ValidYMD(s[1], s[3], s[5])
    THEN <<Ordinal(s[1].n, s[3].n, s[5].n)>>
    ELSE IF /\ Len(s) = 1 /\ IsDigits(s[1]) /\ Width(s[1]) = 8 /\ s[1].z = 0
            /\ ValidYMD(N(0, s[1].n \div 10000),
                        N(IF (s[1].n \div 100) % 100 < 10 THEN 1 ELSE 0, (s[1].n \div 100) % 100),
                        N(IF s[1].n % 100 < 10 THEN 1 ELSE 0, s[1].n % 100))
    THEN <<Ordinal(s[1].n \div 10000, (s[1].n \div 100) % 100, s[1].n % 100)>>
    ELSE IF Len(s) = 5 /\ Sep(s, 2, ".") /\ Sep(s, 4, ".") /\ ValidYMD(s[5], s[3], s[1])
    THEN <<Ordinal(s[5].n, s[3].n, s[1].n)>>
    ELSE IF Len(s) = 5 /\ Sep(s, 2, "/") /\ Sep(s, 4, "/") /\ ValidYMD(s[5], s[1], s[3])
    THEN <<Ordinal(s[5].n, s[1].n, s[3].n)>>
    ELSE IF Len(s) = 5 /\ Sep(s, 2, "/") /\ Sep(s, 4, "/") /\ ValidYMD(s[5], s[3], s[1])
    THEN <<Ordinal(s[5].n, s[3].n, s[1].n)>>
    ELSE <<>>

ParseDate(date_val) ==
    IF IsNone(date_val) THEN <<>>
    ELSE LET date_str == Strip(Str(date_val))
         IN  IF date_str = <<>> THEN <<>> ELSE ParseFormats(date_str)

\* a datetime is truthy whatever its value
HasDate(dt) == dt # <<>>

\* DaysBetween with 0 in place of None
DaysBetweenZeroFilled(later, earlier) ==
    IF HasDate(later) /\ HasDate(earlier) THEN <<later[1] - earlier[1]>> ELSE <<0>>

DaysBetween(later, earlier) ==
    IF HasDate(later) /\ HasDate(earlier) THEN <<later[1] - earlier[1]>> ELSE <<>>

CalculateTiming(order_date, req_del_date, delivery_date, invoice_date) ==
    [order_to_delivery_days |-> DaysBetween(delivery_date, order_date),
     delivery_delay_days |-> DaysBetween(delivery_date, req_del_date),
     invoice_lag_days |-> DaysBetween(invoice_date, delivery_date),
     order_to_invoice_days |-> DaysBetween(invoice_date, order_date)]

(***************************************************************************)
(* The loader's random generator and the interpreter's string hash.        *)
(*                                                                         *)
(* random.Random(seed) is a deterministic stream fixed by the seed; it is  *)
(* modelled by a full-period linear congruential generator.  hash(str) is  *)
(* keyed by a value drawn when the interpreter starts (hashSalt): within   *)
(* one process it is a fixed function of the string, across processes it   *)
(* is not.  It is modelled by a keyed polynomial hash.                     *)
(***************************************************************************)
RngInit(random_seed) == random_seed % 64

RngStep(rng) == (13 * rng + 7) % 64

\* rng.choice(pool): advances the generator and picks one element
Choice(rng, pool) ==
    LET s == RngStep(rng)
    IN  [rng |-> s, pick |-> pool[((s \div 8) % Len(pool)) + 1]]

TokCode(tok) == IF IsDigits(tok) THEN 11 * tok.z + tok.n + 1 ELSE 5

RECURSIVE HashFrom(_, _)
HashFrom(h, s) ==
    IF s = <<>> THEN h ELSE HashFrom((31 * h + 17 * TokCode(Head(s))) % 1009, Tail(s))

PyHash(s, salt) == HashFrom(salt + 1, s)

(***************************************************************************)
(* CSVLoader._generate_synthetic_text                                      *)
(***************************************************************************)
TEXT_PATTERNS ==
    [high_value |-> <<"High-value order - requires manager approval.",
                      "Priority customer - expedited handling required.",
                      "Large order quantity - verify stock availability.">>,
     rush |-> <<"Rush order - expedite processing.",
                "Customer requested express delivery.",
                "Urgent: Ship within 24 hours.">>,
     international |-> <<"International shipment - verify export documentation.",
                         "Cross-border delivery - check customs requirements.",
                         "Foreign customer - handle currency conversion.">>,
     standard |-> <<"Standard order processing.",
                    "Regular customer order.",
                    "Routine shipment.">>,
     special_handling |-> <<"Special packaging required.",
                            "Fragile items - handle with care.",
                            "Temperature-controlled shipping required.">>,
     credit_check |-> <<"Credit check pending.",
                        "Credit limit exceeded - approval required.",
                        "New customer - verify payment terms.">>,
     backorder |-> <<"Partial shipment authorized.",
                     "Backorder created for remaining quantity.",
                     "Material shortage - notify customer of delay.">>]

ORDER_TYPE_DESC ==
    "OR" :> "Standard Order" @@ "RE" :> "Return Order" @@ "CR" :> "Credit Memo" @@
    "DR" :> "Debit Memo" @@ "SO" :> "Rush Order" @@ "QT" :> "Quotation" @@
    "IN" :> "Inquiry"

TypeDesc(order_type) ==
    IF Len(order_type) = 1 /\ ~IsDigits(order_type[1])
       /\ order_type[1].w \in DOMAIN ORDER_TYPE_DESC
    THEN ORDER_TYPE_DESC[order_type[1].w]
    ELSE "Standard Order"

\* float(vbak.get('netwr', 0) or 0): a str left by _clean_value is one that
\* float() rejects, so float() raises ValueError on it
NetValue(vbak) ==
    LET v == Get(vbak, "netwr", PyInt(0))
    IN  IF ~Truthy(v) THEN [raised |-> FALSE, value |-> 0]
        ELSE IF v.t = "int" THEN [raised |-> FALSE, value |-> v.i]
        ELSE [raised |-> TRUE, value |-> 0]

ValueTexts(net_value, rng) ==
    IF net_value > 100000
    THEN LET a == Choice(rng, TEXT_PATTERNS.high_value)
             b == Choice(a.rng, TEXT_PATTERNS.credit_check)
         IN  [texts |-> <<<<W(a.pick)>>, <<W(b.pick)>>>>, rng |-> b.rng]
    ELSE IF net_value > 50000
    THEN [texts |-> <<<<W("Standard order processing.")>>>>, rng |-> rng]
    ELSE IF net_value < 1000
    THEN [texts |-> <<<<W("Small order - consolidated shipping recommended.")>>>>,
          rng |-> rng]
    ELSE [texts |-> <<>>, rng |-> rng]

RegionTexts(sales_org) ==
    IF sales_org \in {<<W("EMEA")>>, <<N(0, 1000)>>, <<N(3, 1)>>}
    THEN <<<<W("European region order.")>>>>
    ELSE IF sales_org \in {<<W("APJ")>>, <<N(0, 2000)>>, <<N(3, 2)>>}
    THEN <<<<W("Asia-Pacific region order.")>>,
           <<W("Check customs documentation requirements.")>>>>
    ELSE IF sales_org \in {<<W("AMER")>>, <<N(0, 3000)>>, <<N(3, 3)>>}
    THEN <<<<W("Americas region order.")>>>>
    ELSE <<>>

ItemTexts(n_items) ==
    IF n_items > 5
    THEN <<<<W("Multi-line order with"), SP, N(0, n_items), SP, W("items.")>>,
           <<W("Check availability across all product lines.")>>>>
    ELSE IF n_items > 2
    THEN <<<<W("Standard multi-item order.")>>>>
    ELSE <<>>

HashTexts(order_hash, rng) ==
    LET pool == IF order_hash % 10 < 2 THEN TEXT_PATTERNS.rush
                ELSE IF order_hash % 10 < 4 THEN TEXT_PATTERNS.special_handling
                ELSE IF order_hash % 10 < 5 THEN TEXT_PATTERNS.backorder
                ELSE <<>>
    IN  IF pool = <<>> THEN [texts |-> <<>>, rng |-> rng]
        ELSE LET c == Choice(rng, pool)
             IN  [texts |-> <<<<W(c.pick)>>>>, rng |-> c.rng]

\* [raised, texts, rng]: the sentences, and the generator after the draws
GenerateSyntheticText(vbak, items, random_seed, salt, rng) ==
    LET sales_org == Upper(Str(Get(vbak, "vkorg", PyStr(<<>>))))
        order_type == Upper(Str(Get(vbak, "auart", PyStr(<<W("OR")>>))))
        net == NetValue(vbak)
        order_hash == PyHash(Concat(Str(Get(vbak, "vbeln", PyStr(<<>>))),
                                    <<N(0, random_seed)>>), salt)
        v == ValueTexts(net.value, rng)
        h == HashTexts(order_hash, v.rng)
    IN  IF net.raised THEN [raised |-> TRUE, texts |-> <<>>, rng |-> rng]
        ELSE [raised |-> FALSE,
              texts |-> <<<<W(TypeDesc(order_type)), SP, W("processing.")>>>>
                        \o v.texts \o RegionTexts(sales_org)
                        \o ItemTexts(Len(items)) \o h.texts,
              rng |-> h.rng]

\* ' '.join(order_texts)
RECURSIVE JoinTexts(_)
JoinTexts(texts) ==
    IF texts = <<>> THEN <<>>
    ELSE IF Len(texts) = 1 THEN texts[1]
    ELSE texts[1] \o <<SP>> \o JoinTexts(Tail(texts))

(***************************************************************************)
(* CSVLoader._convert_to_documents                                         *)
(***************************************************************************)
KeyValue(record, key) == Strip(Str(Get(record, key, PyStr(<<>>))))

\* _group_by_key with groups[key] = [record] in place of append
GroupByKeyLastOnly(records, key) ==
    [k \in {KeyValue(records[i], key) : i \in 1..Len(records)} \ {<<>>} |->
        <<records[CHOOSE i \in 1..Len(records) :
                     /\ KeyValue(records[i], key) = k
                     /\ \A j \in (i + 1)..Len(records) : KeyValue(records[j], key) # k]>>]

\* _group_by_key: key value -> the records carrying it, in input order;
\* records with an empty key value are in no group
GroupByKey(records, key) ==
    LET keys == {KeyValue(records[i], key) : i \in 1..Len(records)} \ {<<>>}
    IN  [k \in keys |-> SelectSeq(records, LAMBDA r : KeyValue(r, key) = k)]

FormatItems(items) ==
    [i \in 1..Len(items) |->
        [item_number |-> Get(items[i], "posnr", PyStr(<<>>)),
         material_id |-> Get(items[i], "matnr", PyStr(<<>>)),
         quantity |-> Get(items[i], "kwmeng", PyInt(0)),
         net_value |-> Get(items[i], "netwr", PyInt(0)),
         plant |-> Get(items[i], "werks", PyStr(<<>>)),
         item_category |-> Get(items[i], "pstyv", PyStr(<<>>))]]

FlowCat(flow, key) == Upper(Str(Get(flow, key, PyStr(<<>>))))
FlowDoc(flow, key) == Str(Get(flow, key, PyStr(<<>>)))

IsFlow(flow, source_cat, target_cat) ==
    /\ FlowCat(flow, "vbtyp_v") = <<W(source_cat)>>
    /\ FlowCat(flow, "vbtyp_n") = <<W(target_cat)>>

\* the index built from the flow records of one category pair: preceding
\* document -> one entry per record, in file order
FlowIndex(vbfa_records, source_cat, target_cat) ==
    LET flows == SelectSeq(vbfa_records, LAMBDA f : IsFlow(f, source_cat, target_cat))
        sources == {FlowDoc(flows[i], "vbelv") : i \in 1..Len(flows)}
        of(src) == SelectSeq(flows, LAMBDA f : FlowDoc(f, "vbelv") = src)
    IN  [src \in sources |->
            [i \in 1..Len(of(src)) |->
                [document_number |-> FlowDoc(of(src)[i], "vbeln"),
                 date |-> Get(of(src)[i], "erdat", PyNone)]]]

\* order (C) -> delivery (J); entries carry created_date
DeliveriesByOrder(vbfa_records) == FlowIndex(vbfa_records, "C", "J")

\* delivery (J) -> invoice (M); entries carry billing_date
InvoicesByDelivery(vbfa_records) == FlowIndex(vbfa_records, "J", "M")

\* len() of a string
TokLen(tok) == IF IsDigits(tok) THEN Width(tok) ELSE Len(tok.w)

RECURSIVE StrLen(_)
StrLen(s) == IF s = <<>> THEN 0 ELSE TokLen(Head(s)) + StrLen(Tail(s))

\* s[:n], for the strings of the vocabulary, which n characters end between
\* two tokens
RECURSIVE TakeChars(_, _)
TakeChars(s, n) ==
    IF s = <<>> \/ TokLen(Head(s)) > n THEN <<>>
    ELSE <<Head(s)>> \o TakeChars(Tail(s), n - TokLen(Head(s)))

TextName(record) == Strip(Str(Get(record, "tdname", PyStr(<<>>))))
TextContent(record) == Strip(Str(Get(record, "tdline", PyStr(<<>>))))

\* the order number in TDNAME: its first ten characters
TextOrderNum(tdname) ==
    IF StrLen(tdname) >= 10 THEN Strip(TakeChars(tdname, 10)) ELSE tdname

\* _group_texts_by_order: order number -> the contents of its records, in
\* file order; records without name or content are in no group
GroupTextsByOrder(text_records) ==
    LET kept == SelectSeq(text_records,
                          LAMBDA r : TextName(r) # <<>> /\ TextContent(r) # <<>>)
        of(k) == SelectSeq(kept, LAMBDA r : TextOrderNum(TextName(r)) = k)
    IN  [k \in {TextOrderNum(TextName(kept[i])) : i \in 1..Len(kept)} |->
            [i \in 1..Len(of(k)) |-> TextContent(of(k)[i])]]

RECURSIVE RelatedInvoices(_, _)
RelatedInvoices(related_deliveries, invoices_by_delivery) ==
    IF related_deliveries = <<>> THEN <<>>
    ELSE Get(invoices_by_delivery, Head(related_deliveries).document_number, <<>>)
         \o RelatedInvoices(Tail(related_deliveries), invoices_by_delivery)

RECURSIVE MinOrdinal(_)
MinOrdinal(dates) ==
    IF Len(dates) = 1 THEN dates[1]
    ELSE LET m == MinOrdinal(Tail(dates))
         IN  IF dates[1] <= m THEN dates[1] ELSE m

\* EarliestDate with the date of the first dated entry in place of the
\* earliest
FirstGivenDate(related) ==
    LET given == SelectSeq(related, LAMBDA e : Truthy(e.date))
        parsed == [i \in 1..Len(given) |-> ParseDate(given[i].date)]
        dates == SelectSeq(parsed, LAMBDA d : HasDate(d))
    IN  IF related = <<>> \/ given = <<>> THEN [raised |-> FALSE, date |-> <<>>]
        ELSE IF dates = <<>> THEN [raised |-> TRUE, date |-> <<>>]
        ELSE [raised |-> FALSE, date |-> dates[1]]

\* the earliest date of the related entries; min() of an empty sequence
\* raises ValueError when every non-empty date is unparseable
EarliestDate(related) ==
    LET given == SelectSeq(related, LAMBDA e : Truthy(e.date))
        parsed == [i \in 1..Len(given) |-> ParseDate(given[i].date)]
        dates == SelectSeq(parsed, LAMBDA d : HasDate(d))
    IN  IF related = <<>> \/ given = <<>> THEN [raised |-> FALSE, date |-> <<>>]
        ELSE IF dates = <<>> THEN [raised |-> TRUE, date |-> <<>>]
        ELSE [raised |-> FALSE,
              date |-> <<MinOrdinal([i \in 1..Len(dates) |-> dates[i][1]])>>]

OrderNum(vbak) == Strip(Str(Get(vbak, "vbeln", PyStr(<<>>))))

\* the unified document of one order
Document(vbak, order_num, items, texts, deliveries, invoices, dates) ==
    [doc_key |-> order_num,
     consolidated_text |-> JoinTexts(texts),
     order |-> [document_number |-> order_num,
                auart |-> Get(vbak, "auart", PyStr(<<W("OR")>>)),
                vkorg |-> Get(vbak, "vkorg", PyStr(<<>>)),
                kunnr |-> Get(vbak, "kunnr", PyStr(<<>>)),
                created_date |-> dates.order_date,
                requested_delivery_date |-> dates.requested_delivery_date,
                netwr |-> Get(vbak, "netwr", PyInt(0)),
                items |-> FormatItems(items),
                header_texts |-> texts],
     deliveries |-> deliveries,
     invoices |-> invoices,
     dates |-> dates,
     timing |-> CalculateTiming(dates.order_date, dates.requested_delivery_date,
                                dates.actual_delivery_date, dates.invoice_date),
     n_deliveries |-> Len(deliveries),
     n_invoices |-> Len(invoices)]

\* the rest of one pass once the texts and the related documents are known
Assemble(vbak, order_num, items, gen, deliveries, invoices, delivery, invoice) ==
    IF gen.raised \/ delivery.raised \/ invoice.raised
    THEN [skip |-> FALSE, raised |-> TRUE, doc |-> <<>>, rng |-> gen.rng]
    ELSE [skip |-> FALSE, raised |-> FALSE, rng |-> gen.rng,
          doc |-> Document(vbak, order_num, items, gen.texts, deliveries, invoices,
                           [order_date |-> ParseDate(Get(vbak, "erdat", PyNone)),
                            requested_delivery_date |-> ParseDate(Get(vbak, "vdatu", PyNone)),
                            actual_delivery_date |-> delivery.date,
                            invoice_date |-> invoice.date])]

Related(vbak, order_num, items, gen, deliveries, invoices) ==
    Assemble(vbak, order_num, items, gen, deliveries, invoices,
             EarliestDate(deliveries), EarliestDate(invoices))

WithDeliveries(vbak, order_num, items, gen, deliveries, idx) ==
    Related(vbak, order_num, items, gen, deliveries,
            RelatedInvoices(deliveries, idx.invoices_by_delivery))

\* texts_by_order.get(order_num, []), or the synthetic texts when there are
\* none: [raised, texts, rng], the generator untouched by an order with texts
OrderTexts(vbak, order_num, items, idx, rng) ==
    IF Get(idx.texts_by_order, order_num, <<>>) # <<>>
    THEN [raised |-> FALSE, texts |-> idx.texts_by_order[order_num], rng |-> rng]
    ELSE GenerateSyntheticText(vbak, items, idx.random_seed, idx.salt, rng)

WithItems(vbak, order_num, items, idx, rng) ==
    WithDeliveries(vbak, order_num, items,
                   OrderTexts(vbak, order_num, items, idx, rng),
                   Get(idx.deliveries_by_order, order_num, <<>>), idx)

\* one pass of the loop over vbak_records: [skip, raised, doc, rng]; idx is
\* the indices built before the loop and the loader's seed and hash key
ConvertOne(vbak, idx, rng) ==
    IF OrderNum(vbak) = <<>>
    THEN [skip |-> TRUE, raised |-> FALSE, doc |-> <<>>, rng |-> rng]
    ELSE WithItems(vbak, OrderNum(vbak),
                   Get(idx.items_by_order, OrderNum(vbak), <<>>), idx, rng)

RECURSIVE ConvertLoop(_, _, _, _, _)
RECURSIVE ConvertNext(_, _, _, _, _)
ConvertNext(vbak_records, i, docs, idx, one) ==
    IF one.raised THEN [raised |-> TRUE, documents |-> <<>>]
    ELSE ConvertLoop(vbak_records, i + 1,
                     IF one.skip THEN docs ELSE Append(docs, one.doc), idx, one.rng)

ConvertLoop(vbak_records, i, docs, idx, rng) ==
    IF i > Len(vbak_records) THEN [raised |-> FALSE, documents |-> docs]
    ELSE ConvertNext(vbak_records, i, docs, idx, ConvertOne(vbak_records[i], idx, rng))

\* [raised, documents]: raised when a ValueError leaves the method
ConvertToDocuments(vbak_records, vbap_records, text_records, vbfa_records, random_seed, salt) ==
    ConvertLoop(vbak_records, 1, <<>>,
                [items_by_order |-> GroupByKey(vbap_records, "vbeln"),
                 texts_by_order |-> GroupTextsByOrder(text_records),
                 deliveries_by_order |-> DeliveriesByOrder(vbfa_records),
                 invoices_by_delivery |-> InvoicesByDelivery(vbfa_records),
                 random_seed |-> random_seed, salt |-> salt],
                RngInit(random_seed))

(***************************************************************************)
(* CSVLoader.load_from_csv and the module-level entry points               *)
(***************************************************************************)
Failure(errors, validation) ==
    [outcome |-> "returned", success |-> FALSE, documents |-> <<>>,
     validation |-> validation, errors |-> errors]

\* the optional document-flow file: read only when it exists and validates
VbfaRecords(vbfa, v) == IF v.valid THEN LoadCsv(vbfa, VBFA_FIELD_MAP) ELSE <<>>

VbfaLoaded(vbfa, v) == [validation |-> "vbfa" :> v, records |-> VbfaRecords(vbfa, v)]

LoadVbfa(vbfa) ==
    IF ~vbfa.exists THEN [validation |-> <<>>, records |-> <<>>]
    ELSE VbfaLoaded(vbfa, ValidateCsv(vbfa, VBFA_FIELD_MAP, "vbelv"))

\* the optional text file: read only when it exists and validates; a file
\* that does not validate leaves a warning
WarnText == [kind |-> "Text file validation failed, will generate synthetic texts"]

TextLoaded(text, v) ==
    IF v.valid
    THEN [validation |-> "text" :> v, records |-> LoadCsv(text, TEXT_FIELD_MAP)]
    ELSE [validation |-> "text" :> [v EXCEPT !.warnings = Append(@, WarnText)],
          records |-> <<>>]

LoadText(text) ==
    IF ~text.exists THEN [validation |-> <<>>, records |-> <<>>]
    ELSE TextLoaded(text, ValidateCsv(text, TEXT_FIELD_MAP, "tdname"))

Converted(validation, conv) ==
    IF conv.raised
    THEN [outcome |-> "raised", success |-> FALSE, documents |-> <<>>,
          validation |-> validation, errors |-> <<>>]
    ELSE [outcome |-> "returned", success |-> TRUE, documents |-> conv.documents,
          validation |-> validation, errors |-> <<>>]

LoadAll(vbak, vbap, texts, flow, validation, random_seed, salt) ==
    Converted(validation @@ texts.validation @@ flow.validation,
              ConvertToDocuments(LoadCsv(vbak, VBAK_FIELD_MAP),
                                 LoadCsv(vbap, VBAP_FIELD_MAP),
                                 texts.records, flow.records, random_seed, salt))

Validated(vbak, vbap, text, vbfa, vbak_validation, vbap_validation, random_seed, salt) ==
    IF ~vbak_validation.valid
    THEN Failure(<<[kind |-> "VBAK validation failed",
                    errors |-> vbak_validation.errors]>>,
                 "vbak" :> vbak_validation)
    ELSE IF ~vbap_validation.valid
    THEN Failure(<<[kind |-> "VBAP validation failed",
                    errors |-> vbap_validation.errors]>>,
                 ("vbak" :> vbak_validation) @@ ("vbap" :> vbap_validation))
    ELSE LoadAll(vbak, vbap, LoadText(text), LoadVbfa(vbfa),
                 ("vbak" :> vbak_validation) @@ ("vbap" :> vbap_validation),
                 random_seed, salt)

\* [outcome, success, documents, validation, errors]; outcome "raised" when
\* a ValueError leaves load_from_csv instead of a result
LoadFromCsv(vbak, vbap, text, vbfa, random_seed, salt) ==
    IF ~vbak.exists THEN Failure(<<[kind |-> "VBAK file not found"]>>, <<>>)
    ELSE IF ~vbap.exists THEN Failure(<<[kind |-> "VBAP file not found"]>>, <<>>)
    ELSE Validated(vbak, vbap, text, vbfa,
                   ValidateCsv(vbak, VBAK_FIELD_MAP, "vbeln"),
                   ValidateCsv(vbap, VBAP_FIELD_MAP, "vbeln"), random_seed, salt)

\* the end of convert_csv_to_orders: the documents, or ValueError
OrdersOrRaise(result) ==
    IF result.outcome = "raised" \/ ~result.success
    THEN [raised |-> TRUE, documents |-> <<>>]
    ELSE [raised |-> FALSE, documents |-> result.documents]

ConvertCsvToOrders(vbak, vbap, text, vbfa, random_seed, salt) ==
    OrdersOrRaise(LoadFromCsv(vbak, vbap, text, vbfa, random_seed, salt))

\* load_csv_directory over a directory holding the files that exist
LoadCsvDirectory(vbak, vbap, text, vbfa, random_seed, salt) ==
    IF ~vbak.exists \/ ~vbap.exists THEN [raised |-> TRUE, documents |-> <<>>]
    ELSE ConvertCsvToOrders(vbak, vbap, text, vbfa, random_seed, salt)

(***************************************************************************)
(* BPI2019Adapter.  A row of the activity log is a dict from column names  *)
(* to cells.  An event keeps the fields that the case index and the graph  *)
(* inference read.  A timestamp is the ordinal of its day.                 *)
(***************************************************************************)
\* get_val(keys): the first non-empty cell found under a key or under the
\* key followed by a blank, stripped; None when there is none
RECURSIVE GetVal(_, _)
GetVal(row, keys) ==
    IF keys = <<>> THEN PyNone
    ELSE IF Head(keys) \in DOMAIN row /\ row[Head(keys)] # <<>>
    THEN PyStr(Strip(row[Head(keys)]))
    ELSE IF (Head(keys) \o " ") \in DOMAIN row /\ row[Head(keys) \o " "] # <<>>
    THEN PyStr(Strip(row[Head(keys) \o " "]))
    ELSE GetVal(row, Tail(keys))

\* datetime.fromisoformat on 'YYYY-MM-DD' gives midnight of that day; every
\* other string of the vocabulary fails it and the strptime fallback alike
IsoDate(s) ==
    IF /\ Len(s) = 5 /\ Sep(s, 2, "-") /\ Sep(s, 4, "-") /\ ValidYMD(s[1], s[3], s[5])
       /\ Width(s[3]) = 2 /\ Width(s[5]) = 2
    THEN <<Ordinal(s[1].n, s[3].n, s[5].n)>>
    ELSE <<>>

\* 'YYYY-MM-DDT10:00:00+01:00': fromisoformat keeps the UTC offset, and the
\* datetime is offset-aware (an offset '+00:00' is cut off before parsing)
HasOffset(s) == Len(s) = 6 /\ s[6] = W("T10:00:00+01:00") /\ IsoDate(SubSeq(s, 1, 5)) # <<>>

ParseTimestamp(ts_str) ==
    IF ~Truthy(ts_str) THEN <<>>
    ELSE IF HasOffset(ts_str.s) THEN IsoDate(SubSeq(ts_str.s, 1, 5))
    ELSE IsoDate(ts_str.s)

\* the timestamp's tzinfo is set
TzAware(ts_str) == Truthy(ts_str) /\ HasOffset(ts_str.s)

ParseCsvRow(row) ==
    [case_id |-> GetVal(row, <<"case concept:name", "case:concept:name", "Case ID">>),
     activity |-> GetVal(row, <<"event concept:name", "concept:name", "Activity">>),
     timestamp |-> ParseTimestamp(GetVal(row, <<"event time:timestamp", "time:timestamp",
                                                "timestamp">>)),
     tz_aware |-> TzAware(GetVal(row, <<"event time:timestamp", "time:timestamp",
                                        "timestamp">>)),
     document_number |-> GetVal(row, <<"case Purchasing Document",
                                       "case:Purchasing Document">>),
     item_number |-> GetVal(row, <<"case Item", "case:Item">>),
     vendor |-> GetVal(row, <<"case Vendor", "case:Vendor">>)]

NoLoadResult == [none |-> TRUE]

\* BPI2019Adapter(): the dicts are sequences in insertion order
EmptyAdapter ==
    [events |-> <<>>, cases |-> <<>>, documents |-> <<>>, vendors |-> <<>>,
     load_result |-> NoLoadResult]

\* self._cases[case_id].append(event)
TrackCase(cases, event) ==
    IF \E i \in 1..Len(cases) : cases[i].case_id = event.case_id
    THEN [i \in 1..Len(cases) |->
             IF cases[i].case_id = event.case_id
             THEN [cases[i] EXCEPT !.events = Append(@, event)]
             ELSE cases[i]]
    ELSE Append(cases, [case_id |-> event.case_id, events |-> <<event>>])

TrackDocument(documents, event) ==
    IF /\ Truthy(event.document_number)
       /\ \A i \in 1..Len(documents) : documents[i].document_number # event.document_number.s
    THEN Append(documents, [document_number |-> event.document_number.s,
                            vendor |-> event.vendor])
    ELSE documents

TrackVendor(vendors, event) ==
    IF /\ Truthy(event.vendor)
       /\ \A i \in 1..Len(vendors) : vendors[i].customer_id # event.vendor.s
    THEN Append(vendors, [customer_id |-> event.vendor.s])
    ELSE vendors

\* the body of the loop over the rows, for a row that raises nothing
StoreEvent(ad, event) ==
    [events |-> Append(ad.events, event),
     cases |-> TrackCase(ad.cases, event),
     documents |-> TrackDocument(ad.documents, event),
     vendors |-> TrackVendor(ad.vendors, event),
     load_result |-> ad.load_result]

\* the same for a row whose timestamp cannot be compared with min_date:
\* TypeError is raised after the event is appended to the events and to
\* its case, and before the document and vendor metadata are built
StoreUncompared(ad, event) ==
    [ad EXCEPT !.events = Append(@, event), !.cases = TrackCase(@, event)]

\* `ts < min_date` raises TypeError when one datetime is offset-aware and
\* the other is not; min_date has the zone kind of the call's first
\* timestamped row, zone = <<>> before that row
Uncomparable(event, zone) ==
    event.timestamp # <<>> /\ zone # <<>> /\ zone[1] # event.tz_aware

NextZone(event, zone) ==
    IF event.timestamp # <<>> /\ zone = <<>> THEN <<event.tz_aware>> ELSE zone

\* [adapter, warnings] after the rows from the i-th on (rows count from 0)
RECURSIVE StoreRows(_, _, _, _, _)
StoreRows(ad, rows, i, zone, warnings) ==
    IF i >= Len(rows) THEN [adapter |-> ad, warnings |-> warnings]
    ELSE IF Uncomparable(ParseCsvRow(rows[i + 1]), zone)
    THEN StoreRows(StoreUncompared(ad, ParseCsvRow(rows[i + 1])), rows, i + 1, zone,
                   Append(warnings, [row |-> i, kind |-> "TypeError"]))
    ELSE StoreRows(StoreEvent(ad, ParseCsvRow(rows[i + 1])), rows, i + 1,
                   NextZone(ParseCsvRow(rows[i + 1]), zone), warnings)

\* the statistics of the call: the events and cases the adapter holds, and
\* the distinct document and vendor values among the rows of this call
LoadResult(ad, seen, warnings) ==
    [total_events |-> Len(ad.events),
     total_cases |-> Len(ad.cases),
     unique_documents |-> Cardinality({seen[i].document_number : i \in 1..Len(seen)}),
     unique_vendors |-> Cardinality({seen[i].vendor : i \in 1..Len(seen)} \ {PyStr(<<>>)}),
     activities |-> {seen[i].activity : i \in 1..Len(seen)},
     warnings |-> warnings]

Loaded(stored, rows) ==
    [stored.adapter EXCEPT
        !.load_result = LoadResult(stored.adapter,
                                   [i \in 1..Len(rows) |-> ParseCsvRow(rows[i])],
                                   stored.warnings)]

\* BPI2019Adapter.load_from_csv on an adapter in state ad: csv.DictReader
\* gives str cells only, on which _parse_csv_row does not raise
BpiLoadFromCsv(ad, rows) == Loaded(StoreRows(ad, rows, 0, <<>>, <<>>), rows)

\* the body of the loop over df.iterrows(): the event is appended to the
\* events and to its case
StoreFrameRow(ad, event) ==
    [ad EXCEPT !.events = Append(@, event), !.cases = TrackCase(@, event)]

RECURSIVE StoreFrameRows(_, _, _)
StoreFrameRows(ad, rows, i) ==
    IF i > Len(rows) THEN ad
    ELSE StoreFrameRows(StoreFrameRow(ad, ParseCsvRow(rows[i])), rows, i + 1)

\* the statistics of load_from_pandas; unique_vendors keeps its default
FrameResult(ad, seen) ==
    [total_events |-> Len(ad.events),
     total_cases |-> Len(ad.cases),
     unique_documents |-> Len(ad.documents),
     unique_vendors |-> 0,
     activities |-> {seen[i].activity : i \in 1..Len(seen)},
     warnings |-> <<>>]

FrameLoaded(stored, rows) ==
    [stored EXCEPT !.load_result = FrameResult(stored, [i \in 1..Len(rows) |->
                                                            ParseCsvRow(rows[i])])]

\* BPI2019Adapter.load_from_pandas on an adapter in state ad, for a frame
\* whose cells are the str cells of the rows
BpiLoadFromPandas(ad, rows) == FrameLoaded(StoreFrameRows(ad, rows, 1), rows)

\* 'pattern' in activity
Contains(activity, pattern) ==
    \E i \in 0..(Len(activity) - Len(pattern)) :
        SubSeq(activity, i + 1, i + Len(pattern)) = pattern

CreatePatterns == {<<W("Create")>>, <<W("Record"), SP, W("Purchase"), SP, W("Order")>>}
GoodsReceiptPatterns == {<<W("Goods"), SP, W("Receipt")>>, <<W("Receive"), SP, W("Goods")>>}
InvoicePatterns == {<<W("Invoice")>>}

\* datetime.min, the sort key of an event without timestamp
DatetimeMin == 1

\* SortKey with an absent timestamp after every date
SortKeyAbsentLast(event) == IF event.timestamp = <<>> THEN 4000000 ELSE event.timestamp[1]

SortKey(event) == IF event.timestamp = <<>> THEN DatetimeMin ELSE event.timestamp[1]

RECURSIVE Insert(_, _)
Insert(sorted, event) ==
    IF sorted = <<>> THEN <<event>>
    ELSE IF SortKey(sorted[Len(sorted)]) <= SortKey(event) THEN Append(sorted, event)
    ELSE Append(Insert(SubSeq(sorted, 1, Len(sorted) - 1), event), sorted[Len(sorted)])

\* list.sort(key=timestamp or datetime.min): ascending and stable
RECURSIVE SortByTimestamp(_)
SortByTimestamp(events) ==
    IF events = <<>> THEN <<>>
    ELSE Insert(SortByTimestamp(SubSeq(events, 1, Len(events) - 1)), events[Len(events)])

DocEventsUnsorted(ad, doc_num) ==
    SelectSeq(ad.events, LAMBDA e : e.document_number = PyStr(doc_num))

DocEvents(ad, doc_num) == SortByTimestamp(DocEventsUnsorted(ad, doc_num))

\* the timestamped events whose activity holds one of the patterns
Dated(doc_events, patterns) ==
    SelectSeq(doc_events,
              LAMBDA e : e.timestamp # <<>> /\ \E p \in patterns : Contains(e.activity.s, p))

\* FirstDate with the last match in place of the first
LastDate(dated) == IF dated = <<>> THEN <<>> ELSE dated[Len(dated)].timestamp

\* the first match in sorted order (gr_date, invoice_date)
FirstDate(dated) == IF dated = <<>> THEN <<>> ELSE dated[1].timestamp

\* the smallest match (created_date)
MinDate(dated) ==
    IF dated = <<>> THEN <<>>
    ELSE <<MinOrdinal([i \in 1..Len(dated) |-> dated[i].timestamp[1]])>>

\* sorting raises TypeError when an offset-aware key meets a naive one
\* (datetime.min, the key of an event without timestamp, is naive)
MixedZones(events) ==
    \E i, j \in 1..Len(events) :
        /\ events[i].timestamp # <<>> /\ events[i].tz_aware
        /\ events[j].timestamp = <<>> \/ ~events[j].tz_aware

\* 'Create' in activity raises TypeError when the activity is None
ActivityMissing(doc_events) ==
    \E i \in 1..Len(doc_events) :
        doc_events[i].timestamp # <<>> /\ IsNone(doc_events[i].activity)

RECURSIVE OrderItems(_, _)
OrderItems(doc_events, seen_items) ==
    IF doc_events = <<>> THEN <<>>
    ELSE IF Truthy(Head(doc_events).item_number)
            /\ Head(doc_events).item_number \notin seen_items
    THEN <<[item_number |-> Head(doc_events).item_number]>>
         \o OrderItems(Tail(doc_events), seen_items \cup {Head(doc_events).item_number})
    ELSE OrderItems(Tail(doc_events), seen_items)

\* DeliveryNum without the 'GR' prefix
DeliveryNumUnprefixed(doc_num) == doc_num

DeliveryNum(doc_num) == Concat(<<W("GR")>>, doc_num)
InvoiceNum(doc_num) == Concat(<<W("IR")>>, doc_num)

Edge(preceding, subsequent, preceding_category, subsequent_category) ==
    [preceding_doc |-> preceding, subsequent_doc |-> subsequent,
     preceding_category |-> preceding_category,
     subsequent_category |-> subsequent_category]

Deliveries(doc_info, gr_date) ==
    IF gr_date = <<>> THEN <<>>
    ELSE <<[document_number |-> DeliveryNum(doc_info.document_number),
            created_date |-> gr_date, actual_gi_date |-> gr_date,
            customer |-> doc_info.vendor]>>

Invoices(doc_info, invoice_date) ==
    IF invoice_date = <<>> THEN <<>>
    ELSE <<[document_number |-> InvoiceNum(doc_info.document_number),
            billing_date |-> invoice_date, customer |-> doc_info.vendor]>>

\* order -> goods receipt, then goods receipt -> invoice when the document
\* has a goods receipt and order -> invoice when it has none
DocFlow(doc_num, gr_date, invoice_date) ==
    (IF gr_date = <<>> THEN <<>>
     ELSE <<Edge(doc_num, DeliveryNum(doc_num), "F", "R")>>)
    \o (IF invoice_date = <<>> THEN <<>>
        ELSE IF gr_date # <<>>
        THEN <<Edge(DeliveryNum(doc_num), InvoiceNum(doc_num), "R", "P")>>
        ELSE <<Edge(doc_num, InvoiceNum(doc_num), "F", "P")>>)

\* what one document adds to the result
AddDocument(result, doc_info, doc_events, created_date, gr_date, invoice_date) ==
    [result EXCEPT
        !.sales_orders = Append(@, [document_number |-> doc_info.document_number,
                                    created_date |-> created_date,
                                    customer |-> doc_info.vendor,
                                    items |-> OrderItems(doc_events, {})]),
        !.deliveries = @ \o Deliveries(doc_info, gr_date),
        !.invoices = @ \o Invoices(doc_info, invoice_date),
        !.doc_flow = @ \o DocFlow(doc_info.document_number, gr_date, invoice_date)]

ConvertDocument(result, doc_info, doc_events) ==
    IF doc_events = <<>> THEN result
    ELSE IF MixedZones(doc_events) \/ ActivityMissing(doc_events)
    THEN [result EXCEPT !.raised = TRUE]
    ELSE AddDocument(result, doc_info, doc_events,
                     MinDate(Dated(doc_events, CreatePatterns)),
                     FirstDate(Dated(doc_events, GoodsReceiptPatterns)),
                     FirstDate(Dated(doc_events, InvoicePatterns)))

RECURSIVE ConvertDocuments(_, _, _)
ConvertDocuments(ad, i, result) ==
    IF i > Len(ad.documents) \/ result.raised THEN result
    ELSE ConvertDocuments(ad, i + 1,
                          ConvertDocument(result, ad.documents[i],
                                          DocEvents(ad, ad.documents[i].document_number)))

Raised ==
    [raised |-> TRUE, sales_orders |-> <<>>, deliveries |-> <<>>, invoices |-> <<>>,
     customers |-> <<>>, doc_flow |-> <<>>]

\* an exception leaves the method without a result
Returned(result) == IF result.raised THEN Raised ELSE result

\* BPI2019Adapter.to_workflow_format(): ValueError when nothing is loaded
ToWorkflowFormat(ad) ==
    IF ad.events = <<>> THEN Raised
    ELSE Returned(ConvertDocuments(ad, 1, [Raised EXCEPT !.raised = FALSE,
                                                         !.customers = ad.vendors]))

\* ' -> '.join(e['activity'] for e in sorted_events); the separator stands
\* for the arrow U+2192 between two blanks
RECURSIVE JoinActivities(_)
JoinActivities(events) ==
    IF Len(events) = 1 THEN events[1].activity.s
    ELSE events[1].activity.s \o <<W(" -> ")>> \o JoinActivities(Tail(events))

\* sorted() or join raises TypeError: keys that cannot be compared, or an
\* activity that is None
VariantRaises(events) ==
    MixedZones(events) \/ \E i \in 1..Len(events) : IsNone(events[i].activity)

\* variant_counts[variant] += 1 on a dict in insertion order
CountVariant(counts, variant) ==
    IF \E i \in 1..Len(counts) : counts[i].variant = variant
    THEN [i \in 1..Len(counts) |->
             IF counts[i].variant = variant
             THEN [counts[i] EXCEPT !.count = @ + 1] ELSE counts[i]]
    ELSE Append(counts, [variant |-> variant, count |-> 1])

RECURSIVE VariantCounts(_, _, _)
VariantCounts(cases, i, counts) ==
    IF i > Len(cases) THEN counts
    ELSE VariantCounts(cases, i + 1,
                       CountVariant(counts,
                                    JoinActivities(SortByTimestamp(cases[i].events))))

\* InsertByCount that puts an item before the items of equal count
RECURSIVE InsertByCountFirst(_, _)
InsertByCountFirst(sorted, item) ==
    IF sorted = <<>> THEN <<item>>
    ELSE IF sorted[Len(sorted)].count > item.count THEN Append(sorted, item)
    ELSE Append(InsertByCountFirst(SubSeq(sorted, 1, Len(sorted) - 1), item),
                sorted[Len(sorted)])

RECURSIVE InsertByCount(_, _)
InsertByCount(sorted, item) ==
    IF sorted = <<>> THEN <<item>>
    ELSE IF sorted[Len(sorted)].count >= item.count THEN Append(sorted, item)
    ELSE Append(InsertByCount(SubSeq(sorted, 1, Len(sorted) - 1), item),
                sorted[Len(sorted)])

\* sorted(variant_counts.items(), key=count, reverse=True): descending, and
\* stable (items of equal count keep their order)
RECURSIVE SortByCount(_)
SortByCount(counts) ==
    IF counts = <<>> THEN <<>>
    ELSE InsertByCount(SortByCount(SubSeq(counts, 1, Len(counts) - 1)), counts[Len(counts)])

\* sorted_variants[:top_n] for top_n >= 0
TopN(sorted_variants, top_n) ==
    SubSeq(sorted_variants, 1,
           IF top_n < Len(sorted_variants) THEN top_n ELSE Len(sorted_variants))

\* BPI2019Adapter.get_process_variants(top_n): [top_n, raised, variants]
GetProcessVariants(ad, top_n) ==
    IF \E i \in 1..Len(ad.cases) : VariantRaises(ad.cases[i].events)
    THEN [top_n |-> top_n, raised |-> TRUE, variants |-> <<>>]
    ELSE [top_n |-> top_n, raised |-> FALSE,
          variants |-> TopN(SortByCount(VariantCounts(ad.cases, 1, <<>>)), top_n)]

(***************************************************************************)
(* SALTAdapter.  The sales-document frame is a sequence of rows            *)
(* [SALESDOCUMENT, CREATIONDATE]; the adapter holds the frame, or nothing  *)
(* (<<>>) before a load.  A date computed from a parsed date is the        *)
(* ordinal of its day.                                                     *)
(***************************************************************************)
EmptySalt == [sales_documents |-> <<>>, load_result |-> NoLoadResult]

\* load_from_parquet on a directory holding the sales-document file
SaltLoadFromParquet(ad, rows) ==
    [sales_documents |-> <<rows>>, load_result |-> [sales_documents |-> Len(rows)]]

\* a digit run of the given width
Field(width, v) == N(width - NumDigits(v), v)

\* _parse_date: None stays None, 'YYYYMMDD' becomes 'YYYY-MM-DD', any other
\* string is passed through
SaltParseDate(date_val) ==
    IF IsNone(date_val) THEN PyNone
    ELSE IF Len(date_val.s) = 1 /\ IsDigits(date_val.s[1]) /\ Width(date_val.s[1]) = 8
    THEN PyStr(<<Field(4, date_val.s[1].n \div 10000), W("-"),
                 Field(2, (date_val.s[1].n \div 100) % 100), W("-"),
                 Field(2, date_val.s[1].n % 100)>>)
    ELSE date_val

SaltDeliveryNum(doc_num) == Concat(<<N(0, 8)>>, doc_num)

\* SaltInvoiceNum with the delivery prefix
SaltInvoiceNumAsDelivery(doc_num) == Concat(<<N(0, 8)>>, doc_num)

SaltInvoiceNum(doc_num) == Concat(<<N(0, 9)>>, doc_num)

\* the dates of the synthetic delivery and invoice: 3, 4 and 5 days after
\* the created date, or the created date itself when it is no ISO date (the
\* dates of the frames have at most ten characters)
SyntheticDates(created_date) ==
    IF IsoDate(created_date.s) # <<>>
    THEN [delivery_date |-> <<IsoDate(created_date.s)[1] + 3>>,
          gi_date |-> <<IsoDate(created_date.s)[1] + 4>>,
          invoice_date |-> <<IsoDate(created_date.s)[1] + 5>>]
    ELSE [delivery_date |-> created_date, gi_date |-> created_date,
          invoice_date |-> created_date]

SaltEvents(result, doc_num, dates) ==
    [result EXCEPT
        !.deliveries = Append(@, [document_number |-> SaltDeliveryNum(doc_num),
                                  created_date |-> dates.delivery_date,
                                  actual_gi_date |-> dates.gi_date]),
        !.invoices = Append(@, [document_number |-> SaltInvoiceNum(doc_num),
                                billing_date |-> dates.invoice_date]),
        !.doc_flow = @ \o <<Edge(doc_num, SaltDeliveryNum(doc_num), "C", "J"),
                            Edge(SaltDeliveryNum(doc_num), SaltInvoiceNum(doc_num),
                                 "J", "M")>>]

\* what one group of rows adds to the result
SaltAddOrder(result, doc_num, created_date, generate_events) ==
    IF generate_events /\ Truthy(created_date)
    THEN SaltEvents([result EXCEPT !.sales_orders =
                        Append(@, [document_number |-> doc_num,
                                   created_date |-> created_date])],
                    doc_num, SyntheticDates(created_date))
    ELSE [result EXCEPT !.sales_orders =
             Append(@, [document_number |-> doc_num, created_date |-> created_date])]

\* groupby('document_number'): the keys in ascending order (the keys of the
\* frames are digit runs without leading zeros, which sort alike as numbers
\* and as strings of equal length, and a key is before its extensions)
RECURSIVE GroupKeys(_)
GroupKeys(keys) ==
    IF keys = {} THEN <<>>
    ELSE LET least == CHOOSE k \in keys : \A j \in keys : k[1].n <= j[1].n
         IN  <<least>> \o GroupKeys(keys \ {least})

\* group.iloc[0]
FirstRow(frame, doc_num) ==
    frame[CHOOSE i \in 1..Len(frame) :
             /\ frame[i].SALESDOCUMENT = doc_num
             /\ \A j \in 1..(i - 1) : frame[j].SALESDOCUMENT # doc_num]

RECURSIVE SaltConvert(_, _, _, _)
SaltConvert(frame, keys, generate_events, result) ==
    IF keys = <<>> THEN result
    ELSE SaltConvert(frame, Tail(keys), generate_events,
                     SaltAddOrder(result, Head(keys),
                                  SaltParseDate(FirstRow(frame, Head(keys)).CREATIONDATE),
                                  generate_events))

\* SALTAdapter.to_workflow_format(generate_events=...): ValueError when
\* nothing is loaded
SaltToWorkflowFormat(ad, generate_events) ==
    IF ad.sales_documents = <<>> THEN Raised
    ELSE SaltConvert(ad.sales_documents[1],
                     GroupKeys({ad.sales_documents[1][i].SALESDOCUMENT :
                                   i \in 1..Len(ad.sales_documents[1])}),
                     generate_events, [Raised EXCEPT !.raised = FALSE])

(***************************************************************************)
(* State machine.  The environment writes the export files; each call of   *)
(* an entry point runs on the files as they are, with a loader constructed *)
(* for the call, and is recorded in runs.                                  *)
(***************************************************************************)
MaxHdrRows == 2
MaxItemRows == 2
MaxFlowOrders == 1
MaxFlowRows == 3
MaxTextRows == 2
MaxSalt == 1
MaxCols == 2
MaxTargetRows == 1
MaxBpiRows == 2
MaxRawLines == 4
MaxCaseRows == 3
MaxCases == 3
MaxTopN == 2
MaxGraphRows == 3
MaxSessionRows == 2
MaxFrameRows == 2
MaxCalls == 3

NoReport == [none |-> TRUE]
NoOutput == [none |-> TRUE]
NoRecords == [none |-> TRUE]

\* CSVLoader(): delimiter ',' and encoding 'utf-8'
DefaultLoader == [delimiter |-> ",", encoding |-> "utf-8"]

\* nothing read yet from the raw file
NoRead == [report |-> NoReport, records |-> <<>>, loaded |-> FALSE, delimiter |-> ""]

NewFile(headers) == [exists |-> TRUE, ioerr |-> FALSE, headers |-> headers, rows |-> <<>>]

\* document-number cells: "0001", " 0001 ", "0002", " 0002", "0009"
Id1 == <<N(3, 1)>>
Id1Padded == <<SP, N(3, 1), SP>>
Id2 == <<N(3, 2)>>
Id2Padded == <<SP, N(3, 2)>>
Id9 == <<N(3, 9)>>

\* dates "2024-01-09", "2024-01-10", "2024-01-12", "20240110" and a cell
\* that is no date
Date(y, z, m, k, d) == <<N(0, y), W("-"), N(z, m), W("-"), N(k, d)>>
Jan09 == Date(2024, 1, 1, 1, 9)
Jan10 == Date(2024, 1, 1, 0, 10)
Jan12 == Date(2024, 1, 1, 0, 12)
Jan10Compact == <<N(0, 20240110)>>
NoDate == <<W("tbd")>>

Entries == {"load_from_csv", "convert_csv_to_orders", "load_csv_directory"}

CreateVbak(layouts) ==
    /\ runs = <<>> /\ ~vbakFile.exists
    /\ \E h \in layouts : vbakFile' = NewFile(h)
    /\ UNCHANGED <<textFile, vbapFile, vbfaFile, hashSalt, runs,
                 valVars, bpiVars, rawVars, sessVars>>

\* a file without header line has no data rows
AppendVbak(rows, max) ==
    /\ runs = <<>> /\ vbakFile.exists /\ vbakFile.headers # <<>>
    /\ Len(vbakFile.rows) < max
    /\ \E r \in rows : vbakFile' = [vbakFile EXCEPT !.rows = Append(@, r)]
    /\ UNCHANGED <<textFile, vbapFile, vbfaFile, hashSalt, runs,
                 valVars, bpiVars, rawVars, sessVars>>

CreateVbap(layouts) ==
    /\ runs = <<>> /\ ~vbapFile.exists
    /\ \E h \in layouts : vbapFile' = NewFile(h)
    /\ UNCHANGED <<textFile, vbakFile, vbfaFile, hashSalt, runs,
                 valVars, bpiVars, rawVars, sessVars>>

\* item rows are numbered 000010, 000020, ... as SAP numbers them
AppendVbap(ids, max) ==
    /\ runs = <<>> /\ vbapFile.exists /\ Len(vbapFile.rows) < max
    /\ \E id \in ids :
          vbapFile' = [vbapFile EXCEPT
                          !.rows = Append(@, <<id, <<N(4, 10 * (Len(@) + 1))>>>>)]
    /\ UNCHANGED <<textFile, vbakFile, vbfaFile, hashSalt, runs,
                 valVars, bpiVars, rawVars, sessVars>>

CreateVbfa(layouts) ==
    /\ runs = <<>> /\ ~vbfaFile.exists
    /\ \E h \in layouts : vbfaFile' = NewFile(h)
    /\ UNCHANGED <<textFile, vbakFile, vbapFile, hashSalt, runs,
                 valVars, bpiVars, rawVars, sessVars>>

AppendVbfa(rows, max) ==
    /\ runs = <<>> /\ vbfaFile.exists /\ Len(vbfaFile.rows) < max
    /\ \E r \in rows : vbfaFile' = [vbfaFile EXCEPT !.rows = Append(@, r)]
    /\ UNCHANGED <<textFile, vbakFile, vbapFile, hashSalt, runs,
                 valVars, bpiVars, rawVars, sessVars>>

CallEntry(entry, random_seed) ==
    CASE entry = "load_from_csv" ->
            LoadFromCsv(vbakFile, vbapFile, textFile, vbfaFile, random_seed, hashSalt)
      [] entry = "convert_csv_to_orders" ->
            ConvertCsvToOrders(vbakFile, vbapFile, textFile, vbfaFile, random_seed, hashSalt)
      [] entry = "load_csv_directory" ->
            LoadCsvDirectory(vbakFile, vbapFile, textFile, vbfaFile, random_seed, hashSalt)

\* one call of an entry point with a fresh CSVLoader(random_seed=seed)
Load(entries, seeds, max) ==
    /\ Len(runs) < max
    /\ \E entry \in entries, random_seed \in seeds :
          runs' = Append(runs, [entry |-> entry, seed |-> random_seed,
                                salt |-> hashSalt, vbak |-> vbakFile,
                                vbap |-> vbapFile, vbfa |-> vbfaFile,
                                text |-> textFile,
                                result |-> CallEntry(entry, random_seed)])
    /\ UNCHANGED <<textFile, vbakFile, vbapFile, vbfaFile, hashSalt,
                 valVars, bpiVars, rawVars, sessVars>>

Init ==
    /\ vbakFile = NoFile /\ vbapFile = NoFile /\ vbfaFile = NoFile
    /\ textFile = NoFile
    /\ hashSalt = 0 /\ runs = <<>>
    /\ target = NoFile /\ report = NoReport /\ loaded = NoRecords
    /\ bpiRows = <<>> /\ adapter = EmptyAdapter /\ wf = NoOutput /\ pv = NoOutput
    /\ rawFile = <<>> /\ cfg = DefaultLoader /\ rawOut = NoRead
    /\ log = <<>> /\ parquet = <<>> /\ saltAdapter = EmptySalt

(***************************************************************************)
(* Spec: headers and items.  The header file (document number, net value)  *)
(* and the item file are written row by row, then one entry point is       *)
(* called.  The header file may be empty, or lack the document number.     *)
(***************************************************************************)
VbakLayouts ==
    {<<>>,
     <<<<W("VBELN")>>, <<W("NETWR")>>>>,
     <<<<SP, W("Sales Document"), SP>>, <<W("Net Value")>>>>,
     <<<<W("AUART")>>, <<W("NETWR")>>>>}
VbakRows ==
    {<<Id1, <<N(0, 500)>>>>, <<Id1Padded, <<N(0, 500)>>>>, <<Id2, <<N(0, 500)>>>>,
     <<Id2, <<W("abc")>>>>, <<<<>>, <<N(0, 500)>>>>}
VbapLayouts == {<<<<W("VBELN")>>, <<W("POSNR")>>>>, <<<<W("Material")>>, <<W("Item")>>>>}
VbapIds == {Id1, Id2Padded, Id9}

WriteVbak == CreateVbak(VbakLayouts)
WriteVbakRow == AppendVbak(VbakRows, MaxHdrRows)
WriteVbap == CreateVbap(VbapLayouts)
WriteVbapRow == AppendVbap(VbapIds, MaxItemRows)
CallLoader == Load(Entries, {42}, 1)

Next == WriteVbak \/ WriteVbakRow \/ WriteVbap \/ WriteVbapRow \/ CallLoader

Spec == Init /\ [][Next]_vars

(***************************************************************************)
(* SpecFlow: one order with its dates, and explicit flow records.          *)
(***************************************************************************)
FlowVbakLayout == <<<<W("VBELN")>>, <<W("ERDAT")>>, <<W("VDATU")>>>>
FlowVbakRows == {<<Id1, Jan10, Jan12>>, <<Id1, <<>>, Jan12>>, <<Id1, Jan10Compact, <<>>>>}
FlowVbapLayout == <<<<W("VBELN")>>, <<W("POSNR")>>>>
FlowVbfaLayout ==
    <<<<W("VBELV")>>, <<W("VBTYP_V")>>, <<W("VBELN")>>, <<W("VBTYP_N")>>, <<W("ERDAT")>>>>
Dlv1 == <<N(0, 8001)>>
Dlv2 == <<N(0, 8002)>>
Inv1 == <<N(0, 9001)>>
FlowVbfaRows ==
    {<<Id1, <<W("C")>>, Dlv1, <<W("J")>>, Jan12>>,
     <<Id1, <<W("c")>>, Dlv2, <<W("j")>>, <<>>>>,
     <<Dlv1, <<W("J")>>, Inv1, <<W("M")>>, Jan09>>,
     <<Dlv1, <<W("J")>>, Inv1, <<W("M")>>, NoDate>>,
     <<Id2, <<W("C")>>, Dlv2, <<W("J")>>, Jan10>>,
     <<Id1, <<W("C")>>, Dlv2, <<W("J")>>, Jan10>>,
     <<Id1, <<W("C")>>, Inv1, <<W("M")>>, Jan09>>}

FlowWriteVbak == CreateVbak({FlowVbakLayout})
FlowWriteVbakRow == AppendVbak(FlowVbakRows, MaxFlowOrders)
FlowWriteVbap == CreateVbap({FlowVbapLayout})
FlowWriteVbfa == CreateVbfa({FlowVbfaLayout})
FlowWriteVbfaRow == AppendVbfa(FlowVbfaRows, MaxFlowRows)
FlowLoad == Load({"load_from_csv"}, {42}, 1)

NextFlow ==
    FlowWriteVbak \/ FlowWriteVbakRow \/ FlowWriteVbap \/ FlowWriteVbfa
    \/ FlowWriteVbfaRow \/ FlowLoad

SpecFlow == Init /\ [][NextFlow]_vars

(***************************************************************************)
(* SpecText: the same header file loaded twice.  Between the two loads the *)
(* interpreter may be restarted (a new string-hash key), and the header    *)
(* rows may be reordered or the first one removed.                         *)
(***************************************************************************)
TextVbakLayout == <<<<W("VBELN")>>, <<W("NETWR")>>>>
TextVbakRows ==
    {<<id, netwr>> : id \in {Id1, Id2}, netwr \in {<<N(0, 200000)>>, <<N(0, 500)>>}}
Seeds == {42, 123}

\* a new interpreter process draws a new string-hash key
RestartProcess ==
    /\ \E salt \in 0..MaxSalt : salt # hashSalt /\ hashSalt' = salt
    /\ UNCHANGED <<textFile, vbakFile, vbapFile, vbfaFile, runs,
                 valVars, bpiVars, rawVars, sessVars>>

Reverse(s) == [i \in 1..Len(s) |-> s[Len(s) + 1 - i]]

ReorderVbak ==
    /\ Len(runs) = 1 /\ Len(vbakFile.rows) >= 2
    /\ vbakFile' = [vbakFile EXCEPT !.rows = Reverse(@)]
    /\ UNCHANGED <<textFile, vbapFile, vbfaFile, hashSalt, runs,
                 valVars, bpiVars, rawVars, sessVars>>

RemoveFirstVbak ==
    /\ Len(runs) = 1 /\ Len(vbakFile.rows) >= 2
    /\ vbakFile' = [vbakFile EXCEPT !.rows = Tail(@)]
    /\ UNCHANGED <<textFile, vbapFile, vbfaFile, hashSalt, runs,
                 valVars, bpiVars, rawVars, sessVars>>

TextWriteVbak == CreateVbak({TextVbakLayout})
TextWriteVbakRow == AppendVbak(TextVbakRows, MaxTextRows)
TextWriteVbap == CreateVbap({FlowVbapLayout})
TextLoad == Load({"load_from_csv"}, Seeds, 2)

NextText ==
    TextWriteVbak \/ TextWriteVbakRow \/ TextWriteVbap \/ RestartProcess
    \/ ReorderVbak \/ RemoveFirstVbak \/ TextLoad

SpecText == Init /\ [][NextText]_vars

(***************************************************************************)
(* SpecNotes: header rows and an optional text file.  The text file has    *)
(* the name and content columns, or lacks one of them; a content cell is   *)
(* words, digits or empty, and a name may carry a suffix after the tenth   *)
(* character.                                                              *)
(***************************************************************************)
MaxNoteOrders == 2
MaxNoteRows == 2

NoteVbakRows == {<<Id1, <<N(0, 200000)>>>>, <<Id2, <<N(0, 200000)>>>>, <<Id2, <<N(0, 500)>>>>}
NoteLayouts ==
    {<<<<W("TDNAME")>>, <<W("TDLINE")>>>>,
     <<<<W("Text ID")>>, <<W("TDLINE")>>>>,
     <<<<W("TDNAME")>>, <<W("TDID")>>>>}
Id1Long == <<N(3, 1), SP, SP, SP, SP, SP, SP, W("X")>>
NoteRows ==
    {<<Id1, <<W("Rush order")>>>>, <<Id1, <<SP, W("second line")>>>>, <<Id1, <<>>>>,
     <<Id2, <<N(2, 7)>>>>, <<Id1Long, <<W("Rush order")>>>>}

CreateText(layouts) ==
    /\ runs = <<>> /\ ~textFile.exists
    /\ \E h \in layouts : textFile' = NewFile(h)
    /\ UNCHANGED <<vbakFile, vbapFile, vbfaFile, hashSalt, runs,
                 valVars, bpiVars, rawVars, sessVars>>

AppendText(rows, max) ==
    /\ runs = <<>> /\ textFile.exists /\ Len(textFile.rows) < max
    /\ \E r \in rows : textFile' = [textFile EXCEPT !.rows = Append(@, r)]
    /\ UNCHANGED <<vbakFile, vbapFile, vbfaFile, hashSalt, runs,
                 valVars, bpiVars, rawVars, sessVars>>

NoteWriteVbak == CreateVbak({TextVbakLayout})
NoteWriteVbakRow == AppendVbak(NoteVbakRows, MaxNoteOrders)
NoteWriteVbap == CreateVbap({FlowVbapLayout})
NoteWriteText == CreateText(NoteLayouts)
NoteWriteTextRow == AppendText(NoteRows, MaxNoteRows)
NoteLoad == Load({"load_from_csv", "load_csv_directory"}, {42}, 1)

NextNotes ==
    NoteWriteVbak \/ NoteWriteVbakRow \/ NoteWriteVbap \/ NoteWriteText
    \/ NoteWriteTextRow \/ NoteLoad

SpecNotes == Init /\ [][NextNotes]_vars

(***************************************************************************)
(* SpecValidate: _validate_csv on one file, against the header field map   *)
(* and its required key.                                                   *)
(***************************************************************************)
TargetHeaders ==
    {<<W("VBELN")>>, <<SP, W("Sales Document"), SP>>, <<W("AUART")>>,
     <<W("Notes")>>, <<SP, W("Custom Field")>>}

TargetCells == {Id1, <<W("abc")>>}

\* the file appears, readable or not
WriteTarget ==
    /\ ~target.exists /\ report = NoReport /\ loaded = NoRecords
    /\ \E unreadable \in BOOLEAN : target' = [NewFile(<<>>) EXCEPT !.ioerr = unreadable]
    /\ UNCHANGED <<report, loaded, csvVars, bpiVars, rawVars, sessVars>>

WriteTargetHeader ==
    /\ target.exists /\ report = NoReport /\ loaded = NoRecords
    /\ target.rows = <<>> /\ Len(target.headers) < MaxCols
    /\ \E h \in TargetHeaders : target' = [target EXCEPT !.headers = Append(@, h)]
    /\ UNCHANGED <<report, loaded, csvVars, bpiVars, rawVars, sessVars>>

\* a data row with one cell for each header
WriteTargetRow ==
    /\ target.exists /\ report = NoReport /\ loaded = NoRecords
    /\ target.headers # <<>> /\ Len(target.rows) < MaxTargetRows
    /\ \E r \in [1..Len(target.headers) -> TargetCells] :
          target' = [target EXCEPT !.rows = Append(@, r)]
    /\ UNCHANGED <<report, loaded, csvVars, bpiVars, rawVars, sessVars>>

Validate ==
    /\ target.exists /\ report = NoReport
    /\ report' = ValidateCsv(target, VBAK_FIELD_MAP, "vbeln")
    /\ UNCHANGED <<target, loaded, csvVars, bpiVars, rawVars, sessVars>>

\* _load_csv on the file: the records, or the OSError of open()
LoadTarget ==
    /\ target.exists /\ loaded = NoRecords
    /\ loaded' = IF target.ioerr THEN [raised |-> TRUE, records |-> <<>>]
                 ELSE [raised |-> FALSE, records |-> LoadCsv(target, VBAK_FIELD_MAP)]
    /\ UNCHANGED <<target, report, csvVars, bpiVars, rawVars, sessVars>>

NextValidate ==
    WriteTarget \/ WriteTargetHeader \/ WriteTargetRow \/ Validate \/ LoadTarget

SpecValidate == Init /\ [][NextValidate]_vars

(***************************************************************************)
(* SpecRaw: a header file is written line by line as bytes, a loader is    *)
(* constructed with a delimiter and an encoding, and _validate_csv and     *)
(* _load_csv read the file.                                                *)
(***************************************************************************)
\* "VBELN,Notes", "VBELN;Notes", "VBELN;NETWR,a,b", "VBELN<tab>Notes|x",
\* "VBELN", "Order,Notes"
RawHeaders ==
    {<<W("VBELN"), W(","), W("Notes")>>,
     <<W("VBELN"), W(";"), W("Notes")>>,
     <<W("VBELN"), W(";"), W("NETWR"), W(","), W("a"), W(","), W("b")>>,
     <<W("VBELN"), W("\t"), W("Notes"), W("|"), W("x")>>,
     <<W("VBELN")>>,
     <<W("Order"), W(","), W("Notes")>>}

\* "0001,x", "0001;x", "0002,caf<E9>", "0002;x;y;z", "0003|x<tab>y|z"
RawData ==
    {<<N(3, 1), W(","), W("x")>>,
     <<N(3, 1), W(";"), W("x")>>,
     <<N(3, 2), W(","), W("caf"), HighByte>>,
     <<N(3, 2), W(";"), W("x"), W(";"), W("y"), W(";"), W("z")>>,
     <<N(3, 3), W("|"), W("x"), W("\t"), W("y"), W("|"), W("z")>>}

RawDelimiters == {",", ";", "|"}
RawEncodings == {"utf-8", "latin-1"}

\* CSVLoader(delimiter=d, encoding=e)
Construct ==
    /\ rawFile = <<>> /\ rawOut = NoRead /\ cfg = DefaultLoader
    /\ \E d \in RawDelimiters, e \in RawEncodings :
          /\ [delimiter |-> d, encoding |-> e] # DefaultLoader
          /\ cfg' = [delimiter |-> d, encoding |-> e]
    /\ UNCHANGED <<rawFile, rawOut, csvVars, valVars, bpiVars, sessVars>>

WriteRawLine ==
    /\ rawOut = NoRead /\ Len(rawFile) < MaxRawLines
    /\ \E line \in (IF rawFile = <<>> THEN RawHeaders ELSE RawData) :
          rawFile' = Append(rawFile, line)
    /\ UNCHANGED <<cfg, rawOut, csvVars, valVars, bpiVars, sessVars>>

RawValidate ==
    /\ rawOut.report = NoReport
    /\ rawOut' = [rawOut EXCEPT
                     !.report = ValidateRawCsv(rawFile, cfg, VBAK_FIELD_MAP, "vbeln"),
                     !.delimiter = UsedDelimiter(rawFile)]
    /\ UNCHANGED <<rawFile, cfg, csvVars, valVars, bpiVars, sessVars>>

RawLoad ==
    /\ ~rawOut.loaded
    /\ rawOut' = [rawOut EXCEPT
                     !.records = LoadRawCsv(rawFile, cfg, VBAK_FIELD_MAP),
                     !.loaded = TRUE,
                     !.delimiter = UsedDelimiter(rawFile)]
    /\ UNCHANGED <<rawFile, cfg, csvVars, valVars, bpiVars, sessVars>>

NextRaw == Construct \/ WriteRawLine \/ RawValidate \/ RawLoad

SpecRaw == Init /\ [][NextRaw]_vars

(***************************************************************************)
(* SpecBpi: an activity log is written, loaded into a fresh adapter and    *)
(* converted.                                                              *)
(***************************************************************************)
Doc1 == <<N(0, 1)>>
DocGR1 == <<W("GR"), N(0, 1)>>
BpiDocs == {Doc1, DocGR1}
BpiActivities ==
    {<<W("Create"), SP, W("Purchase"), SP, W("Order"), SP, W("Item")>>,
     <<W("Record"), SP, W("Goods"), SP, W("Receipt")>>,
     <<W("Record"), SP, W("Invoice"), SP, W("Receipt")>>,
     <<W("Vendor"), SP, W("creates"), SP, W("invoice")>>,
     <<>>}
\* "2024-01-10T10:00:00+01:00"
Jan10Offset == Jan10 \o <<W("T10:00:00+01:00")>>
BpiTimestamps == {<<>>, Jan10, Jan12, Jan10Offset}

BpiRow(doc, activity, ts) ==
    [c \in {"case concept:name", "event concept:name", "event time:timestamp",
            "case Purchasing Document", "case Item", "case Vendor"} |->
        CASE c = "case concept:name" -> doc \o <<W("_"), N(0, 1)>>
          [] c = "event concept:name" -> activity
          [] c = "event time:timestamp" -> ts
          [] c = "case Purchasing Document" -> doc
          [] c = "case Item" -> <<N(0, 1)>>
          [] c = "case Vendor" -> <<W("vendorID_0001")>>]

WriteBpiRow ==
    /\ adapter = EmptyAdapter /\ Len(bpiRows) < MaxBpiRows
    /\ \E doc \in BpiDocs, activity \in BpiActivities, ts \in BpiTimestamps :
          bpiRows' = Append(bpiRows, BpiRow(doc, activity, ts))
    /\ UNCHANGED <<adapter, wf, pv, csvVars, valVars, rawVars, sessVars>>

BpiLoad ==
    /\ adapter = EmptyAdapter
    /\ adapter' = BpiLoadFromCsv(adapter, bpiRows)
    /\ UNCHANGED <<bpiRows, wf, pv, csvVars, valVars, rawVars, sessVars>>

BpiConvert ==
    /\ wf = NoOutput
    /\ wf' = ToWorkflowFormat(adapter)
    /\ UNCHANGED <<bpiRows, adapter, pv, csvVars, valVars, rawVars, sessVars>>

NextBpi == WriteBpiRow \/ BpiLoad \/ BpiConvert

SpecBpi == Init /\ [][NextBpi]_vars

(***************************************************************************)
(* SpecCases: an activity log of up to MaxCases cases is written, loaded   *)
(* into a fresh adapter, and its process variants and its workflow format  *)
(* are computed.  Every row is an item of its own of the case's purchase   *)
(* document.                                                               *)
(***************************************************************************)
\* "0001-01-01", the day of datetime.min
Day1 == <<N(3, 1), W("-"), N(1, 1), W("-"), N(1, 1)>>
CaseTimestamps == {<<>>, Day1, Jan10}
CaseActivities ==
    {<<W("Create"), SP, W("Purchase"), SP, W("Order"), SP, W("Item")>>,
     <<W("Record"), SP, W("Goods"), SP, W("Receipt")>>}

CaseRow(case, item, activity, ts) ==
    [c \in {"case concept:name", "event concept:name", "event time:timestamp",
            "case Purchasing Document", "case Item"} |->
        CASE c = "case concept:name" -> <<W("c"), N(0, case)>>
          [] c = "event concept:name" -> activity
          [] c = "event time:timestamp" -> ts
          [] c = "case Purchasing Document" -> <<N(0, case)>>
          [] c = "case Item" -> <<N(0, item)>>]

\* cases are numbered in the order in which they first appear
CasesWritten == Cardinality({bpiRows[i]["case concept:name"] : i \in 1..Len(bpiRows)})

WriteCaseRow ==
    /\ adapter = EmptyAdapter /\ Len(bpiRows) < MaxCaseRows
    /\ \E case \in 1..(IF CasesWritten < MaxCases THEN CasesWritten + 1 ELSE MaxCases),
          activity \in CaseActivities, ts \in CaseTimestamps :
          bpiRows' = Append(bpiRows, CaseRow(case, Len(bpiRows) + 1, activity, ts))
    /\ UNCHANGED <<adapter, wf, pv, csvVars, valVars, rawVars, sessVars>>

BpiVariants ==
    /\ pv = NoOutput
    /\ \E top_n \in 0..MaxTopN : pv' = GetProcessVariants(adapter, top_n)
    /\ UNCHANGED <<bpiRows, adapter, wf, csvVars, valVars, rawVars, sessVars>>

NextCases == WriteCaseRow \/ BpiLoad \/ BpiVariants \/ BpiConvert

SpecCases == Init /\ [][NextCases]_vars

(***************************************************************************)
(* SpecGraph: the events of one purchase document are written, loaded and  *)
(* converted.                                                              *)
(***************************************************************************)
GraphActivities ==
    {<<W("Create"), SP, W("Purchase"), SP, W("Order"), SP, W("Item")>>,
     <<W("Record"), SP, W("Goods"), SP, W("Receipt")>>,
     <<W("Record"), SP, W("Invoice"), SP, W("Receipt")>>,
     <<W("Vendor"), SP, W("creates"), SP, W("invoice")>>}
GraphTimestamps == {<<>>, Jan09, Jan10, Jan12}

WriteGraphRow ==
    /\ adapter = EmptyAdapter /\ Len(bpiRows) < MaxGraphRows
    /\ \E activity \in GraphActivities, ts \in GraphTimestamps :
          bpiRows' = Append(bpiRows, BpiRow(Doc1, activity, ts))
    /\ UNCHANGED <<adapter, wf, pv, csvVars, valVars, rawVars, sessVars>>

NextGraph == WriteGraphRow \/ BpiLoad \/ BpiConvert

SpecGraph == Init /\ [][NextGraph]_vars

(***************************************************************************)
(* SpecSession: a session with one adapter, a BPI2019Adapter or a          *)
(* SALTAdapter.  The source is written, then up to MaxCalls methods are    *)
(* called on the adapter in any order, a load possibly more than once;     *)
(* each call is recorded with the adapter before and after it.  A row of   *)
(* the activity log may lack the purchasing document, and a document may   *)
(* be named like the goods receipt of another.                             *)
(***************************************************************************)
SessionRows ==
    {BpiRow(Doc1, <<W("Create"), SP, W("Purchase"), SP, W("Order"), SP, W("Item")>>, Jan10),
     BpiRow(Doc1, <<W("Record"), SP, W("Goods"), SP, W("Receipt")>>, Jan12),
     BpiRow(Doc1, <<W("Record"), SP, W("Invoice"), SP, W("Receipt")>>, <<>>),
     BpiRow(DocGR1, <<W("Create"), SP, W("Purchase"), SP, W("Order"), SP, W("Item")>>, Jan10),
     BpiRow(<<>>, <<W("Create"), SP, W("Purchase"), SP, W("Order"), SP, W("Item")>>, Jan10)}

SalesDoc1 == <<N(0, 1)>>
SalesDoc81 == <<N(0, 81)>>
FrameRows ==
    {[SALESDOCUMENT |-> doc, CREATIONDATE |-> created] :
        doc \in {SalesDoc1, SalesDoc81},
        created \in {PyNone, PyStr(Jan10), PyStr(Jan10Compact), PyStr(NoDate)}}

Call(kind, method, args, before, after, out) ==
    [adapter |-> kind, method |-> method, args |-> args, before |-> before,
     after |-> after, out |-> out]

BpiSession ==
    /\ parquet = <<>> /\ saltAdapter = EmptySalt /\ Len(log) < MaxCalls
    /\ \A i \in 1..Len(log) : log[i].adapter = "bpi"
SaltSession ==
    /\ bpiRows = <<>> /\ adapter = EmptyAdapter /\ Len(log) < MaxCalls
    /\ \A i \in 1..Len(log) : log[i].adapter = "salt"

WriteSessionRow ==
    /\ BpiSession /\ log = <<>> /\ Len(bpiRows) < MaxSessionRows
    /\ \E row \in SessionRows : bpiRows' = Append(bpiRows, row)
    /\ UNCHANGED <<adapter, wf, pv, csvVars, valVars, rawVars, sessVars>>

CallLoadFromCsv ==
    /\ BpiSession
    /\ adapter' = BpiLoadFromCsv(adapter, bpiRows)
    /\ log' = Append(log, Call("bpi", "load_from_csv", <<>>, adapter, adapter',
                               adapter'.load_result))
    /\ UNCHANGED <<bpiRows, wf, pv, parquet, saltAdapter, csvVars, valVars, rawVars>>

CallLoadFromPandas ==
    /\ BpiSession
    /\ adapter' = BpiLoadFromPandas(adapter, bpiRows)
    /\ log' = Append(log, Call("bpi", "load_from_pandas", <<>>, adapter, adapter',
                               adapter'.load_result))
    /\ UNCHANGED <<bpiRows, wf, pv, parquet, saltAdapter, csvVars, valVars, rawVars>>

\* to_workflow_format assigns no attribute of the adapter
CallToWorkflowFormat ==
    /\ BpiSession
    /\ wf' = ToWorkflowFormat(adapter)
    /\ log' = Append(log, Call("bpi", "to_workflow_format", <<>>, adapter, adapter, wf'))
    /\ UNCHANGED <<bpiRows, adapter, pv, parquet, saltAdapter, csvVars, valVars, rawVars>>

\* get_process_variants() with the default top_n
CallGetProcessVariants ==
    /\ BpiSession
    /\ pv' = GetProcessVariants(adapter, 10)
    /\ log' = Append(log, Call("bpi", "get_process_variants", <<10>>, adapter, adapter, pv'))
    /\ UNCHANGED <<bpiRows, adapter, wf, parquet, saltAdapter, csvVars, valVars, rawVars>>

WriteFrameRow ==
    /\ SaltSession /\ log = <<>> /\ Len(parquet) < MaxFrameRows
    /\ \E row \in FrameRows : parquet' = Append(parquet, row)
    /\ UNCHANGED <<log, saltAdapter, csvVars, valVars, bpiVars, rawVars>>

SaltLoad ==
    /\ SaltSession
    /\ saltAdapter' = SaltLoadFromParquet(saltAdapter, parquet)
    /\ log' = Append(log, Call("salt", "load_from_parquet", <<>>, saltAdapter,
                               saltAdapter', saltAdapter'.load_result))
    /\ UNCHANGED <<parquet, csvVars, valVars, bpiVars, rawVars>>

\* to_workflow_format works on a renamed copy of the frame and assigns no
\* attribute of the adapter
SaltCallToWorkflowFormat ==
    /\ SaltSession
    /\ \E generate_events \in BOOLEAN :
          log' = Append(log, Call("salt", "to_workflow_format", <<generate_events>>,
                                  saltAdapter, saltAdapter,
                                  SaltToWorkflowFormat(saltAdapter, generate_events)))
    /\ UNCHANGED <<parquet, saltAdapter, csvVars, valVars, bpiVars, rawVars>>

NextSession ==
    WriteSessionRow \/ CallLoadFromCsv \/ CallLoadFromPandas \/ CallToWorkflowFormat
    \/ CallGetProcessVariants \/ WriteFrameRow \/ SaltLoad \/ SaltCallToWorkflowFormat

SpecSession == Init /\ [][NextSession]_vars

(***************************************************************************)
(* Properties.  The files recorded with each run are read again here,      *)
(* independently of the loader.                                            *)
(***************************************************************************)
Range(s) == {s[i] : i \in 1..Len(s)}

\* the run is a load_from_csv call that returned success=True
Succeeded(run) ==
    run.entry = "load_from_csv" /\ run.result.outcome = "returned" /\ run.result.success

\* the stripped cell of row r under the last header that maps to name, the
\* empty string when no header maps to it
RawCell(f, r, field_map, name) ==
    IF \E i \in 1..Len(f.headers) : MapGet(f.headers[i], field_map) = name
    THEN Strip(f.rows[r][CHOOSE i \in 1..Len(f.headers) :
                            /\ MapGet(f.headers[i], field_map) = name
                            /\ \A j \in (i + 1)..Len(f.headers) :
                                  MapGet(f.headers[j], field_map) # name])
    ELSE <<>>

\* the distinct non-empty document ids of the header file
HeaderIds(f) == {RawCell(f, r, VBAK_FIELD_MAP, "vbeln") : r \in 1..Len(f.rows)} \ {<<>>}

\* the indices, in file order, of the item rows whose trimmed id is doc_key
MatchingRows(f, doc_key) ==
    SelectSeq([r \in 1..Len(f.rows) |-> r],
              LAMBDA r : RawCell(f, r, VBAP_FIELD_MAP, "vbeln") = doc_key)

\* the item rows with a non-empty id that no header row carries
OrphanRows(run) ==
    {r \in 1..Len(run.vbap.rows) :
        RawCell(run.vbap, r, VBAP_FIELD_MAP, "vbeln") \notin (HeaderIds(run.vbak) \cup {<<>>})}

\* every error and warning a load_from_csv result carries
Recorded(result) ==
    Range(result.errors)
    \cup UNION {Range(result.validation[f].errors) \cup Range(result.validation[f].warnings) :
                   f \in DOMAIN result.validation}

\* the file is missing, or no header of it maps to the document number
KeyAbsent(f, field_map) ==
    ~f.exists \/ ~\E i \in 1..Len(f.headers) : MapGet(f.headers[i], field_map) = "vbeln"

StructuralFailure(run) ==
    KeyAbsent(run.vbak, VBAK_FIELD_MAP) \/ KeyAbsent(run.vbap, VBAP_FIELD_MAP)

\* the item numbers attached to a document
ItemNumbers(doc) == {doc.order.items[k].item_number : k \in 1..Len(doc.order.items)}

\* C1: whenever load_from_csv succeeds, it returns as many documents as
\* there are distinct non-empty document ids among the header rows.
C1_OneDocumentPerDistinctId ==
    \A i \in 1..Len(runs) :
        Succeeded(runs[i]) =>
            Len(runs[i].result.documents) = Cardinality(HeaderIds(runs[i].vbak))

\* C5: a load_from_csv result with success=False has errors and no
\* documents, one with success=True has no errors, and convert_csv_to_orders
\* and load_csv_directory raise ValueError exactly when a required file is
\* missing or lacks its key column.
C5_FailuresAreExplicit ==
    \A i \in 1..Len(runs) :
        IF runs[i].entry = "load_from_csv"
        THEN runs[i].result.outcome = "returned" =>
                /\ ~runs[i].result.success =>
                      runs[i].result.errors # <<>> /\ runs[i].result.documents = <<>>
                /\ runs[i].result.success => runs[i].result.errors = <<>>
        ELSE runs[i].result.raised <=> StructuralFailure(runs[i])

\* C9: whenever load_from_csv succeeds on an item file holding a row whose
\* document id matches no header row, the row is in no document and the
\* result carries at least one warning or error.
C9_OrphanItemRecorded ==
    \A i \in 1..Len(runs) :
        Succeeded(runs[i]) /\ OrphanRows(runs[i]) # {} =>
            /\ \A d \in 1..Len(runs[i].result.documents), r \in OrphanRows(runs[i]) :
                  PyStr(RawCell(runs[i].vbap, r, VBAP_FIELD_MAP, "posnr"))
                      \notin ItemNumbers(runs[i].result.documents[d])
            /\ Recorded(runs[i].result) # {}

Delta(later, earlier) ==
    IF later # <<>> /\ earlier # <<>> THEN <<later[1] - earlier[1]>> ELSE <<>>

\* C4: in every document, each timing metric is present exactly when both
\* of its dates are, and is then their difference in days (zero and
\* negative included), a metric lacking a date is None and not 0, and a
\* document loaded without flow records has no metric, delivery or invoice.
C4_TimingPresentIffBothDates ==
    \A i \in 1..Len(runs) :
        Succeeded(runs[i]) =>
            \A d \in 1..Len(runs[i].result.documents) :
                LET doc == runs[i].result.documents[d]
                IN  /\ doc.timing.order_to_delivery_days
                          = Delta(doc.dates.actual_delivery_date, doc.dates.order_date)
                    /\ doc.timing.delivery_delay_days
                          = Delta(doc.dates.actual_delivery_date,
                                  doc.dates.requested_delivery_date)
                    /\ doc.timing.invoice_lag_days
                          = Delta(doc.dates.invoice_date, doc.dates.actual_delivery_date)
                    /\ doc.timing.order_to_invoice_days
                          = Delta(doc.dates.invoice_date, doc.dates.order_date)
                    /\ runs[i].vbfa.rows = <<>> =>
                          /\ doc.timing = [order_to_delivery_days |-> <<>>,
                                           delivery_delay_days |-> <<>>,
                                           invoice_lag_days |-> <<>>,
                                           order_to_invoice_days |-> <<>>]
                          /\ doc.deliveries = <<>> /\ doc.invoices = <<>>

\* a document delivered on the requested day and invoiced three days before
\* delivery, whose order date is missing
C4_Witness ==
    \E i \in 1..Len(runs) :
        /\ Succeeded(runs[i])
        /\ \E d \in 1..Len(runs[i].result.documents) :
              LET doc == runs[i].result.documents[d]
              IN  /\ doc.dates.order_date = <<>>
                  /\ doc.timing.delivery_delay_days = <<0>>
                  /\ doc.timing.invoice_lag_days = <<0 - 3>>
                  /\ doc.timing.order_to_delivery_days = <<>>

\* the distinct flow records (preceding document, preceding category,
\* subsequent document, subsequent category) of a category pair that lead
\* away from one of the sources
DistinctEdges(flows, sources, source_cat, target_cat) ==
    {<<FlowDoc(flows[k], "vbelv"), FlowDoc(flows[k], "vbtyp_v"),
       FlowDoc(flows[k], "vbeln"), FlowDoc(flows[k], "vbtyp_n")>> :
        k \in {j \in 1..Len(flows) : /\ IsFlow(flows[j], source_cat, target_cat)
                                     /\ FlowDoc(flows[j], "vbelv") \in sources}}

\* C8: a document has no more deliveries than there are distinct
\* order-to-delivery flow records from it, and no more invoices than there
\* are distinct delivery-to-invoice flow records from its deliveries.
C8_DuplicateEdgesSuppressed ==
    \A i \in 1..Len(runs) :
        Succeeded(runs[i]) =>
            \A d \in 1..Len(runs[i].result.documents) :
                LET doc == runs[i].result.documents[d]
                    flows == LoadCsv(runs[i].vbfa, VBFA_FIELD_MAP)
                    dlvs == {doc.deliveries[k].document_number : k \in 1..Len(doc.deliveries)}
                IN  /\ doc.n_deliveries
                          <= Cardinality(DistinctEdges(flows, {doc.doc_key}, "C", "J"))
                    /\ doc.n_invoices
                          <= Cardinality(DistinctEdges(flows, dlvs, "J", "M"))

\* the generated text of every document of a run, in document order
Texts(run) ==
    [d \in 1..Len(run.result.documents) |-> run.result.documents[d].consolidated_text]

\* C2: two successful loads with the same seed of the same files give the
\* same text for every document, whichever process each ran in.
C2_SameSeedSameBatchSameText ==
    \A i, j \in 1..Len(runs) :
        /\ Succeeded(runs[i]) /\ Succeeded(runs[j])
        /\ runs[i].seed = runs[j].seed
        /\ runs[i].vbak = runs[j].vbak /\ runs[i].vbap = runs[j].vbap
        /\ runs[i].vbfa = runs[j].vbfa
        => Texts(runs[i]) = Texts(runs[j])

\* the header rows of a file that carry the document id
RowsWithId(f, id) ==
    {f.rows[r] : r \in {q \in 1..Len(f.rows) : RawCell(f, q, VBAK_FIELD_MAP, "vbeln") = id}}

UniqueIds(f) == Cardinality(HeaderIds(f)) = Len(f.rows)

\* C3: for two successful loads with the same seed in the same process, of
\* header files with unique ids, a document whose header row is the same in
\* both files has the same text in both, wherever the row stands.
C3_TextIndependentOfPosition ==
    \A i, j \in 1..Len(runs) :
        /\ Succeeded(runs[i]) /\ Succeeded(runs[j])
        /\ runs[i].seed = runs[j].seed /\ runs[i].salt = runs[j].salt
        /\ UniqueIds(runs[i].vbak) /\ UniqueIds(runs[j].vbak)
        => \A a \in 1..Len(runs[i].result.documents), b \in 1..Len(runs[j].result.documents) :
              LET x == runs[i].result.documents[a]
                  y == runs[j].result.documents[b]
              IN  /\ x.doc_key = y.doc_key
                  /\ RowsWithId(runs[i].vbak, x.doc_key) = RowsWithId(runs[j].vbak, y.doc_key)
                  => x.consolidated_text = y.consolidated_text

\* some header of the validated file maps, after trimming, to the key
KeyMapped ==
    \E i \in 1..Len(target.headers) : MapGet(target.headers[i], VBAK_FIELD_MAP) = "vbeln"

\* the trimmed headers that are not in the alias table
NotAliased ==
    {Strip(target.headers[i]) : i \in 1..Len(target.headers)}
    \ {<<W(k)>> : k \in DOMAIN VBAK_FIELD_MAP}

NamesKey(errors) ==
    \E k \in 1..Len(errors) : "field" \in DOMAIN errors[k] /\ errors[k].field = "vbeln"

\* headers outside the alias table are listed and warned about, and the
\* verdict is decided by the key alone
UnmappedOnlyWarn ==
    ~target.ioerr /\ target.headers # <<>> =>
        /\ Range(report.unmapped_columns) = NotAliased
        /\ NotAliased # {} =>
              \E k \in 1..Len(report.warnings) :
                  Range(report.warnings[k].columns) = NotAliased
        /\ report.valid <=> KeyMapped

RECURSIVE Paths(_, _)
Paths(edges, k) ==
    IF k = 0 THEN edges
    ELSE Paths(edges, k - 1)
         \cup {<<pe[1][1], pe[2][2]>> :
                  pe \in {q \in Paths(edges, k - 1) \X edges : q[1][2] = q[2][1]}}

FlowEdges ==
    {<<wf.doc_flow[k].preceding_doc, wf.doc_flow[k].subsequent_doc>> :
        k \in 1..Len(wf.doc_flow)}

FlowNodes ==
    {wf.sales_orders[k].document_number : k \in 1..Len(wf.sales_orders)}
    \cup {wf.deliveries[k].document_number : k \in 1..Len(wf.deliveries)}
    \cup {wf.invoices[k].document_number : k \in 1..Len(wf.invoices)}

\* C7: in every output of to_workflow_format no document is joined to
\* itself by a path of doc_flow edges, and both ends of every edge are
\* document numbers of the sales_orders, deliveries or invoices returned.
C7_DocFlowAcyclicAndClosed ==
    wf # NoOutput /\ ~wf.raised =>
        /\ \A p \in Paths(FlowEdges, Cardinality(FlowEdges)) : p[1] # p[2]
        /\ \A e \in FlowEdges : e[1] \in FlowNodes /\ e[2] \in FlowNodes

\* an output with two edges in a chain: the goods receipt of one document
\* bears the number of another purchase document
C7_Witness ==
    /\ wf # NoOutput /\ ~wf.raised
    /\ \E e, g \in FlowEdges : e # g /\ e[2] = g[1]
    /\ Len(wf.sales_orders) = 2

(***************************************************************************)
(* Properties of the records _load_csv produces                            *)
(***************************************************************************)
\* the columns of a record, as (name, row, cell) with the cell of the last
\* header that normalizes to the name
Cells(f, field_map) ==
    {<<NormalizedName(f.headers[c], field_map), r, f.rows[r][c]>> :
        r \in 1..Len(f.rows),
        c \in {k \in 1..Len(f.headers) :
                  \A j \in (k + 1)..Len(f.headers) :
                      NormalizedName(f.headers[j], field_map)
                          # NormalizedName(f.headers[k], field_map)}}

\* every whitelisted column of every record is the stripped cell, a str
IdentifiersKept(f, field_map) ==
    \A x \in Cells(f, field_map) :
        x[1] \in STRING_FIELDS => LoadCsv(f, field_map)[x[2]][x[1]] = PyStr(Strip(x[3]))

\* C11: in every record _load_csv produces, a column whose canonical name
\* is in STRING_FIELDS holds its (stripped) cell as a str, leading zeros
\* kept, and the doc_key of each resulting document is that string of some
\* header record.
C11_IdentifiersStayStrings ==
    \A i \in 1..Len(runs) :
        Succeeded(runs[i]) =>
            /\ IdentifiersKept(runs[i].vbak, VBAK_FIELD_MAP)
            /\ IdentifiersKept(runs[i].vbap, VBAP_FIELD_MAP)
            /\ \A d \in 1..Len(runs[i].result.documents) :
                  \E r \in 1..Len(runs[i].vbak.rows) :
                      LoadCsv(runs[i].vbak, VBAK_FIELD_MAP)[r].vbeln
                          = PyStr(runs[i].result.documents[d].doc_key)

\* a load whose header file has the padded cell " 0001 " under the document
\* number returned a document with doc_key "0001"
C11_Witness ==
    \E i \in 1..Len(runs) :
        /\ Succeeded(runs[i])
        /\ runs[i].vbak.rows # <<>> /\ runs[i].vbak.rows[1][1] = Id1Padded
        /\ runs[i].result.documents # <<>>
        /\ runs[i].result.documents[1].doc_key = <<N(3, 1)>>

\* the cell is empty or, stripped and upper-cased, one of the null tokens
IsNullCell(cell) == Strip(cell) = <<>> \/ Upper(Strip(cell)) \in NullTokens

\* every empty or null-token cell of every record is None
NullsAbsent(f, field_map) ==
    \A x \in Cells(f, field_map) :
        IsNullCell(x[3]) => LoadCsv(f, field_map)[x[2]][x[1]] = PyNone

\* C12: in every record _load_csv produces, for every column, whitelisted
\* ones included, a cell that is empty or one of NULL, NA, N/A, #N/A is
\* None, never 0 and never the empty string.
C12_NullCellsAreNone ==
    \A i \in 1..Len(runs) :
        Succeeded(runs[i]) =>
            /\ NullsAbsent(runs[i].vbak, VBAK_FIELD_MAP)
            /\ NullsAbsent(runs[i].vbap, VBAP_FIELD_MAP)

(***************************************************************************)
(* Properties of reading a raw file                                        *)
(***************************************************************************)
\* the text the delimiter is detected on
RawSample == Sample([k \in 1..Len(rawFile) |-> DecodeLine(rawFile[k])])

Position(ch) == CHOOSE i \in 1..Len(Delimiters) : Delimiters[i] = ch

\* C13: the delimiter a read parsed with is one of comma, semicolon, tab
\* and pipe, none of the four occurs more often in the sample, and none of
\* those before it in that order occurs as often.
C13_DelimiterIsFirstMostFrequent ==
    rawOut # NoRead =>
        /\ rawOut.delimiter \in Range(Delimiters)
        /\ \A i \in 1..Len(Delimiters) :
              /\ Count(RawSample, Delimiters[i]) <= Count(RawSample, rawOut.delimiter)
              /\ i < Position(rawOut.delimiter) =>
                    Count(RawSample, Delimiters[i]) < Count(RawSample, rawOut.delimiter)

\* a file whose sample holds as many tabs as pipes, and no comma or
\* semicolon, was parsed with the tab
C13_Witness ==
    /\ rawOut.loaded /\ rawOut.delimiter = "\t"
    /\ Count(RawSample, "|") = Count(RawSample, "\t")

\* C14: every read parses the file with the delimiter the loader was
\* constructed with.
C14_CallerDelimiterOverrides ==
    rawOut # NoRead =>
        /\ rawOut.delimiter = cfg.delimiter
        /\ rawOut.report # NoReport /\ rawFile # <<>> =>
              rawOut.report.column_count = Len(SplitFrom(rawFile[1], cfg.delimiter, <<>>))

\* the first encoding, in the order tried, under which every line decodes
FirstEncoding ==
    LET encs == Encodings(cfg.encoding)
    IN  encs[CHOOSE i \in 1..Len(encs) :
                /\ \A k \in 1..Len(rawFile) : Decodes(rawFile[k], encs[i])
                /\ \A j \in 1..(i - 1) :
                      \E k \in 1..Len(rawFile) : ~Decodes(rawFile[k], encs[j])]

\* C15: the report and the records are those of one read of the whole file
\* under the first encoding, in the order configured, utf-8-sig, latin-1,
\* cp1252, under which every line decodes.
C15_FirstCleanEncodingDecides ==
    /\ rawOut.loaded =>
          rawOut.records = LoadCsv(AttemptReader(rawFile, FirstEncoding), VBAK_FIELD_MAP)
    /\ rawOut.report # NoReport =>
          rawOut.report = ValidateCsv(AttemptReader(rawFile, FirstEncoding),
                                      VBAK_FIELD_MAP, "vbeln")

(***************************************************************************)
(* Event order (SpecCases).  The order the code gives to the events of a   *)
(* case is read from the returned variants, and the order it gives to the  *)
(* events of a document from the items of the converted order: every row   *)
(* of SpecCases is an item of its own.                                     *)
(***************************************************************************)
\* the place of es[i] when es is ordered by Key ascending, equal keys in
\* input order
Rank(es, i, Key(_)) ==
    1 + Cardinality({j \in 1..Len(es) :
                        \/ Key(es[j]) < Key(es[i])
                        \/ Key(es[j]) = Key(es[i]) /\ j < i})

Ordered(es, Key(_)) ==
    [p \in 1..Len(es) |-> es[CHOOSE i \in 1..Len(es) : Rank(es, i, Key) = p]]

\* an absent timestamp below every timestamp
KeyAbsentFirst(e) == IF e.timestamp = <<>> THEN 0 ELSE e.timestamp[1]

\* an absent timestamp equal to the smallest timestamp, 0001-01-01
KeyAbsentMin(e) == IF e.timestamp = <<>> THEN Ordinal(1, 1, 1) ELSE e.timestamp[1]

VariantNames(out) == {out.variants[k].variant : k \in 1..Len(out.variants)}

\* a call of get_process_variants that cut nothing returns, for every case,
\* its activities joined in the order of Key
VariantsFollow(out, ad, Key(_)) ==
    ~out.raised /\ Len(out.variants) < out.top_n =>
        \A c \in 1..Len(ad.cases) :
            JoinActivities(Ordered(ad.cases[c].events, Key)) \in VariantNames(out)

\* a call of to_workflow_format lists the items of every order in the order
\* of Key over the document's events
ItemsFollow(out, ad, Key(_)) ==
    ~out.raised =>
        \A d \in 1..Len(out.sales_orders) :
            out.sales_orders[d].items
                = [p \in 1..Len(DocEventsUnsorted(ad, out.sales_orders[d].document_number)) |->
                      [item_number |->
                          Ordered(DocEventsUnsorted(ad, out.sales_orders[d].document_number),
                                  Key)[p].item_number]]

\* C16 (as stated): every call of get_process_variants and of
\* to_workflow_format orders the events by timestamp ascending and stably,
\* with all events without timestamp before all timestamped events.
C16_AbsentPrecedeTimestamped ==
    [][/\ pv' # pv => VariantsFollow(pv', adapter, KeyAbsentFirst)
       /\ wf' # wf => ItemsFollow(wf', adapter, KeyAbsentFirst)]_vars

\* C16 (amended): every call of get_process_variants and of
\* to_workflow_format orders the events by timestamp ascending with an
\* absent timestamp counted as 0001-01-01, the smallest timestamp; events
\* of equal key, an event dated 0001-01-01 and an event without timestamp
\* included, keep their input order.
C16_AbsentSortsAsMinimum ==
    [][/\ pv' # pv => VariantsFollow(pv', adapter, KeyAbsentMin)
       /\ wf' # wf => ItemsFollow(wf', adapter, KeyAbsentMin)]_vars

\* a case whose second event has no timestamp and another activity than its
\* first event, dated 2024-01-10: the variant returned starts with the
\* second event's activity, and the order lists item 2 before item 1
C16_Witness ==
    /\ pv # NoOutput /\ ~pv.raised /\ wf # NoOutput /\ ~wf.raised
    /\ Len(adapter.cases) >= 1 /\ Len(adapter.cases[1].events) = 2
    /\ adapter.cases[1].events[1].timestamp = ParseTimestamp(PyStr(Jan10))
    /\ adapter.cases[1].events[2].timestamp = <<>>
    /\ adapter.cases[1].events[1].activity # adapter.cases[1].events[2].activity
    /\ adapter.cases[1].events[2].activity.s \o <<W(" -> ")>>
           \o adapter.cases[1].events[1].activity.s \in VariantNames(pv)
    /\ wf.sales_orders[1].items
           = <<[item_number |-> adapter.cases[1].events[2].item_number],
               [item_number |-> adapter.cases[1].events[1].item_number]>>

(***************************************************************************)
(* Variant frequencies (SpecCases).                                        *)
(***************************************************************************)
\* the variant of a case: its activities in the order of the sort key
CaseVariant(case) == JoinActivities(Ordered(case.events, KeyAbsentMin))

\* the number of cases of a variant
CasesOf(ad, variant) ==
    Cardinality({c \in 1..Len(ad.cases) : CaseVariant(ad.cases[c]) = variant})

\* the first case of a variant
FirstCase(ad, variant) ==
    CHOOSE c \in 1..Len(ad.cases) :
        /\ CaseVariant(ad.cases[c]) = variant
        /\ \A b \in 1..(c - 1) : CaseVariant(ad.cases[b]) # variant

AllVariants(ad) == {CaseVariant(ad.cases[c]) : c \in 1..Len(ad.cases)}

TopVariants(out, ad) ==
    /\ Len(out.variants) <= out.top_n
    /\ \A k \in 1..Len(out.variants) :
          /\ out.variants[k].variant \in AllVariants(ad)
          /\ out.variants[k].count = CasesOf(ad, out.variants[k].variant)
    /\ \A k, l \in 1..Len(out.variants) :
          k < l =>
              /\ out.variants[k].variant # out.variants[l].variant
              /\ out.variants[k].count >= out.variants[l].count
              /\ out.variants[k].count = out.variants[l].count =>
                    FirstCase(ad, out.variants[k].variant)
                        < FirstCase(ad, out.variants[l].variant)
    /\ \A v \in AllVariants(ad) \ VariantNames(out) :
          /\ Len(out.variants) = out.top_n
          /\ \A k \in 1..Len(out.variants) : CasesOf(ad, v) <= out.variants[k].count

\* C17: every call get_process_variants(top_n) that returns gives at most
\* top_n pairs (variant, count); each count is the number of cases whose
\* ordered activities are the variant; counts do not increase; a variant is
\* omitted only when top_n pairs are returned, and its count is no greater
\* than any returned count; variants of equal count are in the order in
\* which their first cases come.
C17_TopVariantsByCount ==
    [][pv' # pv /\ ~pv'.raised => TopVariants(pv', adapter)]_vars

\* three cases, the first of one variant and the other two of another, and
\* a call with top_n = 1: the pair returned is the second variant, counted 2
C17_Witness ==
    /\ pv # NoOutput /\ ~pv.raised /\ pv.top_n = 1
    /\ Len(adapter.cases) = 3
    /\ CaseVariant(adapter.cases[1]) # CaseVariant(adapter.cases[2])
    /\ CaseVariant(adapter.cases[2]) = CaseVariant(adapter.cases[3])
    /\ pv.variants = <<[variant |-> CaseVariant(adapter.cases[2]), count |-> 2]>>

(***************************************************************************)
(* Rows loaded and rows skipped (SpecBpi).                                 *)
(***************************************************************************)
\* the events of all case traces
Traced(ad) == UNION {Range(ad.cases[c].events) : c \in 1..Len(ad.cases)}

\* C18: after load_from_csv, a row with a 'Row i' warning is absent from
\* the stored events and from every case trace, and total_events plus the
\* number of warnings is the number of rows read.
C18_RowLoadedOrSkipped ==
    adapter.load_result # NoLoadResult =>
        /\ adapter.load_result.total_events + Len(adapter.load_result.warnings)
               = Len(bpiRows)
        /\ \A k \in 1..Len(adapter.load_result.warnings) :
              LET event == ParseCsvRow(bpiRows[adapter.load_result.warnings[k].row + 1])
              IN  event \notin Range(adapter.events) /\ event \notin Traced(adapter)

(***************************************************************************)
(* Temporal order along flow edges (SpecFlow).                             *)
(***************************************************************************)
\* the delivery is dated before the order it follows
DeliveryBeforeOrder(doc) ==
    \E k \in 1..Len(doc.deliveries) :
        /\ HasDate(doc.dates.order_date) /\ HasDate(ParseDate(doc.deliveries[k].date))
        /\ ParseDate(doc.deliveries[k].date)[1] < doc.dates.order_date[1]

\* an invoice is dated before a delivery it follows by a flow record
InvoiceBeforeDelivery(doc, flows) ==
    \E k \in 1..Len(doc.deliveries), l \in 1..Len(doc.invoices), f \in 1..Len(flows) :
        /\ IsFlow(flows[f], "J", "M")
        /\ FlowDoc(flows[f], "vbelv") = doc.deliveries[k].document_number
        /\ FlowDoc(flows[f], "vbeln") = doc.invoices[l].document_number
        /\ Get(flows[f], "erdat", PyNone) = doc.invoices[l].date
        /\ HasDate(ParseDate(doc.deliveries[k].date)) /\ HasDate(ParseDate(doc.invoices[l].date))
        /\ ParseDate(doc.invoices[l].date)[1] < ParseDate(doc.deliveries[k].date)[1]

\* C19: when a document of a successful load has a flow edge whose
\* subsequent document is dated before its preceding document, both dates
\* known, the result of the load records an error or a warning.
C19_TemporalViolationReported ==
    \A i \in 1..Len(runs) :
        Succeeded(runs[i]) =>
            \A d \in 1..Len(runs[i].result.documents) :
                \/ DeliveryBeforeOrder(runs[i].result.documents[d])
                \/ InvoiceBeforeDelivery(runs[i].result.documents[d],
                                         LoadCsv(runs[i].vbfa, VBFA_FIELD_MAP))
                => Recorded(runs[i].result) # {}

(***************************************************************************)
(* The graph inferred for one purchase document (SpecGraph).  The dates    *)
(* are read from the rows of the log.                                      *)
(***************************************************************************)
\* the dates of the timestamped rows whose activity holds one of the patterns
RowDates(patterns) ==
    {ParseCsvRow(bpiRows[i]).timestamp[1] :
        i \in {j \in 1..Len(bpiRows) :
                  /\ ParseCsvRow(bpiRows[j]).timestamp # <<>>
                  /\ \E p \in patterns :
                        Contains(bpiRows[j]["event concept:name"], p)}}

Earliest(dates) ==
    IF dates = {} THEN <<>> ELSE <<CHOOSE m \in dates : \A x \in dates : m <= x>>

DocIR1 == <<W("IR"), N(0, 1)>>

\* the nodes of a kind: none when no date is found, else the one node named
\* doc_num with that date
NodesAre(nodes, doc_num, date, DateOf(_)) ==
    IF date = <<>> THEN nodes = <<>>
    ELSE Len(nodes) = 1 /\ nodes[1].document_number = doc_num /\ DateOf(nodes[1]) = date

\* the date a delivery node and an invoice node carry
CreatedDate(node) == node.created_date
BillingDate(node) == node.billing_date

ExpectedFlow(gr_date, invoice_date) ==
    (IF gr_date = <<>> THEN {} ELSE {<<Doc1, DocGR1>>})
    \cup (IF invoice_date = <<>> THEN {}
          ELSE IF gr_date = <<>> THEN {<<Doc1, DocIR1>>} ELSE {<<DocGR1, DocIR1>>})

\* C20: the converted document has created_date equal to the earliest
\* timestamp of its creation-pattern events; a delivery node 'GR'+doc and
\* the edge order -> delivery exist iff a timestamped goods-receipt event
\* exists, dated at the earliest one; an invoice node 'IR'+doc exists iff a
\* timestamped invoice event exists, dated at the earliest one, with one
\* edge into it, from the delivery when there is one and from the order
\* otherwise; there are no other edges.
C20_GraphFromEarliestEvents ==
    wf # NoOutput /\ ~wf.raised =>
        /\ Len(wf.sales_orders) = 1 /\ wf.sales_orders[1].document_number = Doc1
        /\ wf.sales_orders[1].created_date = Earliest(RowDates(CreatePatterns))
        /\ NodesAre(wf.deliveries, DocGR1, Earliest(RowDates(GoodsReceiptPatterns)),
                    CreatedDate)
        /\ NodesAre(wf.invoices, DocIR1, Earliest(RowDates(InvoicePatterns)), BillingDate)
        /\ FlowEdges = ExpectedFlow(Earliest(RowDates(GoodsReceiptPatterns)),
                                    Earliest(RowDates(InvoicePatterns)))
        /\ Len(wf.doc_flow) = Cardinality(FlowEdges)

\* Create PO on 2024-01-09, Record Goods Receipt on 2024-01-10 and Record
\* Invoice Receipt on 2024-01-12 give the edges order -> delivery and
\* delivery -> invoice, and no other
C20_Witness ==
    /\ Len(bpiRows) = 3
    /\ bpiRows[1]["event concept:name"]
           = <<W("Create"), SP, W("Purchase"), SP, W("Order"), SP, W("Item")>>
    /\ bpiRows[2]["event concept:name"] = <<W("Record"), SP, W("Goods"), SP, W("Receipt")>>
    /\ bpiRows[3]["event concept:name"] = <<W("Record"), SP, W("Invoice"), SP, W("Receipt")>>
    /\ bpiRows[1]["event time:timestamp"] = Jan09
    /\ bpiRows[2]["event time:timestamp"] = Jan10
    /\ bpiRows[3]["event time:timestamp"] = Jan12
    /\ wf # NoOutput /\ ~wf.raised
    /\ [k \in 1..Len(wf.doc_flow) |->
           <<wf.doc_flow[k].preceding_doc, wf.doc_flow[k].subsequent_doc>>]
           = <<<<Doc1, DocGR1>>, <<DocGR1, DocIR1>>>>

(***************************************************************************)
(* One record per data row (SpecRaw).                                      *)
(***************************************************************************)
\* the lines of the file after the header line
DataLines == IF rawFile = <<>> THEN 0 ELSE Len(rawFile) - 1

\* C26: _load_csv returns one record per data line of the file, in file
\* order: record k holds the document number of data line k, whatever
\* number of encodings failed before one succeeded.
C26_OneRecordPerDataRow ==
    rawOut.loaded =>
        /\ Len(rawOut.records) = DataLines
        /\ \A k \in 1..Len(rawOut.records) :
              k <= DataLines =>
                  rawOut.records[k]
                      = LoadCsv(DictReader(<<DecodeLine(rawFile[1]), DecodeLine(rawFile[k + 1])>>,
                                           rawOut.delimiter),
                                VBAK_FIELD_MAP)[1]

(***************************************************************************)
(* Unparseable dates (SpecFlow).                                           *)
(***************************************************************************)
\* C25: a load_from_csv call on header and item files that both hold the
\* document number completes whatever the dates of the flow records are,
\* and returns one document per header row; a date of a document is absent
\* exactly when the metrics that depend on it are.
C25_UnparseableDateIsNoFailure ==
    \A i \in 1..Len(runs) :
        runs[i].entry = "load_from_csv" /\ ~StructuralFailure(runs[i]) =>
            /\ runs[i].result.outcome = "returned" /\ runs[i].result.success
            /\ Len(runs[i].result.documents) = Len(runs[i].vbak.rows)
            /\ \A d \in 1..Len(runs[i].result.documents) :
                  LET doc == runs[i].result.documents[d]
                  IN  /\ ~HasDate(doc.dates.invoice_date) =>
                            /\ doc.timing.invoice_lag_days = <<>>
                            /\ doc.timing.order_to_invoice_days = <<>>
                      /\ ~HasDate(doc.dates.actual_delivery_date) =>
                            /\ doc.timing.order_to_delivery_days = <<>>
                            /\ doc.timing.delivery_delay_days = <<>>

(***************************************************************************)
(* Attachment through flow records (SpecFlow).                             *)
(***************************************************************************)
\* the flow records of a category pair whose preceding document is one of
\* the sources, in file order
FlowsFrom(flows, sources, source_cat, target_cat) ==
    SelectSeq(flows, LAMBDA f : /\ IsFlow(f, source_cat, target_cat)
                                /\ FlowDoc(f, "vbelv") \in sources)

\* the attached documents are the subsequent documents of the records, each
\* with the date of such a record
SameTargets(attached, records) ==
    /\ \A k \in 1..Len(attached) :
          \E f \in 1..Len(records) :
              /\ FlowDoc(records[f], "vbeln") = attached[k].document_number
              /\ Get(records[f], "erdat", PyNone) = attached[k].date
    /\ \A f \in 1..Len(records) :
          \E k \in 1..Len(attached) :
              FlowDoc(records[f], "vbeln") = attached[k].document_number

\* the earliest of the dates of the attached entries that parse
EarliestParseable(attached) ==
    Earliest({ParseDate(attached[k].date)[1] :
                 k \in {j \in 1..Len(attached) : HasDate(ParseDate(attached[j].date))}})

\* C30: in every document of a successful load the deliveries are the
\* subsequent documents of the C -> J flow records from the order, the
\* invoices those of the J -> M flow records from these deliveries,
\* n_deliveries and n_invoices are their numbers, and actual_delivery_date
\* and invoice_date are the earliest parseable dates among them.
C30_AttachedThroughFlowRecords ==
    \A i \in 1..Len(runs) :
        Succeeded(runs[i]) =>
            \A d \in 1..Len(runs[i].result.documents) :
                LET doc == runs[i].result.documents[d]
                    flows == LoadCsv(runs[i].vbfa, VBFA_FIELD_MAP)
                    dlvs == {doc.deliveries[k].document_number : k \in 1..Len(doc.deliveries)}
                IN  /\ SameTargets(doc.deliveries, FlowsFrom(flows, {doc.doc_key}, "C", "J"))
                    /\ SameTargets(doc.invoices, FlowsFrom(flows, dlvs, "J", "M"))
                    /\ doc.n_deliveries = Len(doc.deliveries)
                    /\ doc.n_invoices = Len(doc.invoices)
                    /\ doc.dates.actual_delivery_date = EarliestParseable(doc.deliveries)
                    /\ doc.dates.invoice_date = EarliestParseable(doc.invoices)

\* an order with a delivery dated 2024-01-12 and, after it in the file, a
\* delivery dated 2024-01-10, and a direct order -> invoice record: the
\* delivery date is 2024-01-10 and no invoice is attached
C30_Witness ==
    \E i \in 1..Len(runs) :
        /\ Succeeded(runs[i])
        /\ \E f \in 1..Len(runs[i].vbfa.rows) :
              runs[i].vbfa.rows[f] = <<Id1, <<W("C")>>, Inv1, <<W("M")>>, Jan09>>
        /\ \E d \in 1..Len(runs[i].result.documents) :
              LET doc == runs[i].result.documents[d]
              IN  /\ doc.n_deliveries = 2 /\ doc.n_invoices = 0
                  /\ doc.deliveries[1].date = PyStr(Jan12)
                  /\ doc.deliveries[2].date = PyStr(Jan10)
                  /\ doc.dates.actual_delivery_date = ParseDate(PyStr(Jan10))

(***************************************************************************)
(* C23: real and synthetic texts                                           *)
(***************************************************************************)
\* the column of the text file stored under a name, or 0
TextColumn(text, name) ==
    IF \E i \in 1..Len(text.headers) : NormalizedName(text.headers[i], TEXT_FIELD_MAP) = name
    THEN CHOOSE i \in 1..Len(text.headers) :
            NormalizedName(text.headers[i], TEXT_FIELD_MAP) = name
    ELSE 0

\* the non-empty contents of the text file's rows named after an order, in
\* file order
ContentsOf(rows, tdname, tdline, order_num) ==
    LET keyed == SelectSeq(rows, LAMBDA r : /\ TextOrderNum(Strip(r[tdname])) = order_num
                                            /\ Strip(r[tdline]) # <<>>)
    IN  [i \in 1..Len(keyed) |-> Strip(keyed[i][tdline])]

KeyedContents(text, order_num) ==
    IF ~text.exists \/ TextColumn(text, "tdname") = 0 \/ TextColumn(text, "tdline") = 0
    THEN <<>>
    ELSE ContentsOf(text.rows, TextColumn(text, "tdname"), TextColumn(text, "tdline"),
                    order_num)

\* the header file without the rows of the orders that have contents
WithoutTexted(vbak, text) ==
    [vbak EXCEPT !.rows = SelectSeq(@, LAMBDA r : KeyedContents(text, Strip(r[1])) = <<>>)]

BeginsWithTypeSentence(text) ==
    /\ Len(text) >= 3
    /\ \E t \in {ORDER_TYPE_DESC[k] : k \in DOMAIN ORDER_TYPE_DESC} :
          SubSeq(text, 1, 3) = <<W(t), SP, W("processing.")>>

\* C23: every document returned by load_from_csv has a non-empty
\* consolidated_text: for an order with at least one text record of non-empty
\* content it is those contents in file order joined by single spaces, and
\* the synthetic generator and its random generator are not used for it (the
\* other orders' documents are those of a load without the orders that have
\* texts); otherwise it is synthetic and begins with the order-type sentence.
\* A missing or invalid text file does not make the load fail.
C23_RealOrSyntheticText ==
    \A i \in 1..Len(runs) :
        LET r == runs[i]
            docs == r.result.documents
            plain == LoadFromCsv(WithoutTexted(r.vbak, r.text), r.vbap, NoFile, r.vbfa,
                                 r.seed, r.salt)
        IN  r.entry = "load_from_csv" =>
                /\ r.result.outcome = "returned"
                /\ r.result.success
                       = LoadFromCsv(r.vbak, r.vbap, NoFile, r.vbfa, r.seed, r.salt).success
                /\ \A d \in 1..Len(docs) :
                      /\ docs[d].consolidated_text # <<>>
                      /\ KeyedContents(r.text, docs[d].doc_key) # <<>> =>
                            docs[d].consolidated_text
                                = JoinTexts(KeyedContents(r.text, docs[d].doc_key))
                      /\ KeyedContents(r.text, docs[d].doc_key) = <<>> =>
                            BeginsWithTypeSentence(docs[d].consolidated_text)
                /\ r.result.success =>
                      SelectSeq(docs, LAMBDA doc : KeyedContents(r.text, doc.doc_key) = <<>>)
                          = plain.documents

(***************************************************************************)
(* C24: columns outside and inside the alias table                         *)
(***************************************************************************)
\* the cleaned headers of the file that are no key of the alias table
NonAliasHeaders(f, field_map) ==
    SelectSeq([c \in 1..Len(f.headers) |-> Strip(f.headers[c])],
              LAMBDA hc : ~InFieldMap(hc, field_map))

\* C24: no column is dropped by _load_csv: every record holds, for every
\* header of the file, the column's value under the header's canonical name
\* (alias table) or its lower-cased, underscored form (any other header);
\* and the validation report lists exactly the non-alias headers as
\* unmapped_columns.
C24_NoColumnDropped ==
    /\ loaded # NoRecords /\ ~loaded.raised =>
          /\ Len(loaded.records) = Len(target.rows)
          /\ \A r \in 1..Len(target.rows), c \in 1..Len(target.headers) :
                LET name == NormalizedName(target.headers[c], VBAK_FIELD_MAP)
                IN  /\ name \in DOMAIN loaded.records[r]
                    /\ loaded.records[r][name] = NormalizedValue(name, target.rows[r][c])
    /\ report # NoReport /\ ~target.ioerr /\ target.headers # <<>> =>
          report.unmapped_columns = NonAliasHeaders(target, VBAK_FIELD_MAP)

(***************************************************************************)
(* Properties of a session                                                 *)
(***************************************************************************)
\* the calls of a method on the BPI adapter, as indices of the log
BpiCalls(method) ==
    {i \in 1..Len(log) : log[i].adapter = "bpi" /\ log[i].method = method}

RECURSIVE TraceLengths(_)
TraceLengths(cases) ==
    IF cases = <<>> THEN 0 ELSE Len(Head(cases).events) + TraceLengths(Tail(cases))

\* the traces an event is in
TracesOf(cases, event) ==
    {i \in 1..Len(cases) : \E k \in 1..Len(cases[i].events) : cases[i].events[k] = event}

\* C27: after load_from_csv on a fresh adapter, total_events is the number
\* of stored events and the sum of the lengths of the case traces, every
\* stored event is in exactly one trace, that of its case id, total_cases is
\* the number of distinct case ids, and unique_documents is the number of
\* document entries, which is the number of orders to_workflow_format
\* returns.
C27_StatisticsAgreeWithState ==
    \A i \in BpiCalls("load_from_csv") :
        log[i].before = EmptyAdapter =>
            LET ad == log[i].after
            IN  /\ log[i].out.total_events = Len(ad.events)
                /\ log[i].out.total_events = TraceLengths(ad.cases)
                /\ \A k \in 1..Len(ad.events) :
                      /\ Cardinality(TracesOf(ad.cases, ad.events[k])) = 1
                      /\ \A c \in TracesOf(ad.cases, ad.events[k]) :
                            ad.cases[c].case_id = ad.events[k].case_id
                /\ log[i].out.total_cases
                       = Cardinality({ad.events[k].case_id : k \in 1..Len(ad.events)})
                /\ log[i].out.unique_documents = Len(ad.documents)
                /\ ad.events # <<>> /\ ~ToWorkflowFormat(ad).raised =>
                      log[i].out.unique_documents = Len(ToWorkflowFormat(ad).sales_orders)

\* C22: load_from_csv on an adapter that has already loaded a source gives
\* the statistics (total_events, total_cases, unique_documents,
\* unique_vendors, activities) and the later to_workflow_format and
\* get_process_variants outputs of one load_from_csv on a fresh adapter.
C22_LoadIsStateless ==
    \A i \in BpiCalls("load_from_csv") :
        LET fresh == BpiLoadFromCsv(EmptyAdapter, bpiRows)
        IN  /\ log[i].out.total_events = fresh.load_result.total_events
            /\ log[i].out.total_cases = fresh.load_result.total_cases
            /\ log[i].out.unique_documents = fresh.load_result.unique_documents
            /\ log[i].out.unique_vendors = fresh.load_result.unique_vendors
            /\ log[i].out.activities = fresh.load_result.activities
            /\ ToWorkflowFormat(log[i].after) = ToWorkflowFormat(fresh)
            /\ GetProcessVariants(log[i].after, 10) = GetProcessVariants(fresh, 10)

\* C28: for the same rows, a fresh adapter loaded with load_from_pandas
\* holds the events, cases, documents and vendors of one loaded with
\* load_from_csv, reports the same total_events, total_cases and
\* unique_documents, and returns the same to_workflow_format and
\* get_process_variants outputs.
C28_LoadPathsEquivalent ==
    \A i \in BpiCalls("load_from_pandas") :
        log[i].before = EmptyAdapter =>
            LET csv == BpiLoadFromCsv(EmptyAdapter, bpiRows)
            IN  /\ log[i].after.events = csv.events
                /\ log[i].after.cases = csv.cases
                /\ log[i].after.documents = csv.documents
                /\ log[i].after.vendors = csv.vendors
                /\ log[i].out.total_events = csv.load_result.total_events
                /\ log[i].out.total_cases = csv.load_result.total_cases
                /\ log[i].out.unique_documents = csv.load_result.unique_documents
                /\ ToWorkflowFormat(log[i].after) = ToWorkflowFormat(csv)
                /\ GetProcessVariants(log[i].after, 10) = GetProcessVariants(csv, 10)

\* the calls of to_workflow_format on either adapter
Conversions == {i \in 1..Len(log) : log[i].method = "to_workflow_format"}

DocumentNumbers(docs) == [k \in 1..Len(docs) |-> docs[k].document_number]

\* every id of the synthetic documents is the prefix followed by the id of
\* an order of the output
PrefixedIds(synthetic, orders, prefix) ==
    \A k \in 1..Len(synthetic) :
        \E o \in 1..Len(orders) :
            synthetic[k].document_number = Concat(<<prefix>>, orders[o].document_number)

AllIds(out) ==
    DocumentNumbers(out.sales_orders) \o DocumentNumbers(out.deliveries)
    \o DocumentNumbers(out.invoices)

\* C29: in every output of to_workflow_format (BPI and SALT) the ids of the
\* orders, deliveries and invoices are pairwise different, so an id names
\* exactly one node of the flow graph.
C29_IdsUniqueAcrossOutput ==
    \A i \in Conversions :
        ~log[i].out.raised =>
            \A a, b \in 1..Len(AllIds(log[i].out)) :
                a # b => AllIds(log[i].out)[a] # AllIds(log[i].out)[b]

====
